---- MODULE Spec2Model ----
(***************************************************************************)
(* Model of the X12 277CA claim-acknowledgment parser                      *)
(* (src/src/parsers/x12_277ca_parser.py) and of the revenue reconciliation *)
(* engine (src/src/core/reconciliation.py).                                *)
(*                                                                         *)
(* Python values are tagged records: None, str (a sequence of one-         *)
(* character strings), float (an integer number of hundredths) and the     *)
(* float NaN.  A datetime is [day |-> proleptic Gregorian ordinal,         *)
(* us |-> microseconds since midnight].                                    *)
(***************************************************************************)
EXTENDS Integers, Sequences, FiniteSets, TLC

VARIABLES
    rejections_cache,   \* engine: dict match key -> CacheEntry, in insertion order
    payments_cache,     \* engine: dict match key -> PaymentEntry, in insertion order
    lastOp,             \* the most recent call and its scalar arguments
    ret,                \* the value returned (or the exception raised) by that call
    ops,                \* number of ingestion calls made so far
    txn,                \* input of the pure-function specification: two records
    x12_content,        \* parser: the document text handed to _parse_segments
    segments,           \* parser: the tokenised segment stream being parsed
    pos,                \* parser: number of segments consumed by the loop
    current_transaction,\* parser: the record in progress, or None
    acknowledgments,    \* parser: result["acknowledgments"]
    result,             \* parser: what parse() returned, or None while running
    returned            \* parser: what the earlier parse() calls on this instance returned

vars == <<rejections_cache, payments_cache, lastOp, ret, ops, txn,
          x12_content, segments, pos, current_transaction, acknowledgments, result,
          returned>>

engineVars == <<rejections_cache, payments_cache, lastOp, ret, ops>>
parserVars == <<x12_content, segments, pos, current_transaction,
                acknowledgments, result, returned>>

----------------------------------------------------------------------------
(* Python values *)

PyNone == [t |-> "None"]
Str(s) == [t |-> "str", s |-> s]
Float(c) == [t |-> "float", c |-> c]
NaN == [t |-> "nan"]

\* bool(v): None, "", 0 and 0.0 are false; NaN and every other value are true.
Truthy(v) ==
    CASE v.t = "None" -> FALSE
      [] v.t = "str" -> v.s # <<>>
      [] v.t = "float" -> v.c # 0
      [] OTHER -> TRUE

\* a or b
PyOr(a, b) == IF Truthy(a) THEN a ELSE b

Digit(ch) ==
    CASE ch = "0" -> 0 [] ch = "1" -> 1 [] ch = "2" -> 2 [] ch = "3" -> 3
      [] ch = "4" -> 4 [] ch = "5" -> 5 [] ch = "6" -> 6 [] ch = "7" -> 7
      [] ch = "8" -> 8 [] ch = "9" -> 9 [] OTHER -> -1

IsDigit(ch) == Digit(ch) >= 0

DigitChar(d) == <<"0", "1", "2", "3", "4", "5", "6", "7", "8", "9">>[d + 1]

RECURSIVE NatStr(_)
NatStr(n) == IF n < 10 THEN <<DigitChar(n)>>
             ELSE NatStr(n \div 10) \o <<DigitChar(n % 10)>>

\* str(i) of a Python int
IntStr(i) == IF i < 0 THEN <<"-">> \o NatStr(-i) ELSE NatStr(i)

\* mutant of IntOfFloat: rounding to the nearest integer
IntOfFloat_Round(c) ==
    IF c >= 0 THEN (c + 50) \div 100 ELSE -((50 - c) \div 100)

\* int(x) of a float given in hundredths: truncation toward zero
IntOfFloat(c) == IF c >= 0 THEN c \div 100 ELSE -((-c) \div 100)

RECURSIVE AllDigits(_)
AllDigits(s) == s = <<>> \/ (IsDigit(Head(s)) /\ AllDigits(Tail(s)))

RECURSIVE NatOf(_)
NatOf(s) == IF s = <<>> THEN 0
            ELSE NatOf(SubSeq(s, 1, Len(s) - 1)) * 10 + Digit(s[Len(s)])

Contains(s, ch) == \E i \in 1..Len(s) : s[i] = ch

\* s.split(sep) for a one-character separator: the list of pieces
RECURSIVE Split(_, _)
Split(s, sep) ==
    IF ~Contains(s, sep) THEN <<s>>
    ELSE LET i == CHOOSE j \in 1..Len(s) :
                      s[j] = sep /\ \A k \in 1..(j - 1) : s[k] # sep
         IN  <<SubSeq(s, 1, i - 1)>> \o Split(SubSeq(s, i + 1, Len(s)), sep)

\* mutant of Join: the parts after the first are left out
Join_HeadOnly(parts, sep) == IF parts = <<>> THEN <<>> ELSE parts[1]

\* sep.join(parts)
RECURSIVE Join(_, _)
Join(parts, sep) ==
    IF parts = <<>> THEN <<>>
    ELSE IF Len(parts) = 1 THEN parts[1]
    ELSE parts[1] \o <<sep>> \o Join(Tail(parts), sep)

\* float(v) of a str in the plain decimal notation [-]digits[.digits], kept
\* to hundredths; any other text raises ValueError.
ParseFloat(s) ==
    LET neg == s # <<>> /\ s[1] = "-"
        body == IF neg THEN Tail(s) ELSE s
        parts == Split(body, ".")
        ip == parts[1]
        fp == IF Len(parts) = 2 THEN parts[2] ELSE <<>>
        ok == /\ Len(parts) <= 2
              /\ AllDigits(ip) /\ AllDigits(fp)
              /\ Len(ip) + Len(fp) >= 1
        f2 == SubSeq(fp \o <<"0", "0">>, 1, 2)
        mag == NatOf(ip) * 100 + NatOf(f2)
    IN  IF s = <<"n", "a", "n">> THEN NaN
        ELSE IF ok THEN Float(IF neg THEN -mag ELSE mag)
        ELSE [t |-> "raise"]

\* float(v)
FloatOf(v) ==
    CASE v.t = "float" -> v
      [] v.t = "nan" -> v
      [] v.t = "str" -> ParseFloat(v.s)
      [] OTHER -> [t |-> "raise"]

\* str(v) of a str value (lines 239-241: the components are strings)
PyStr(v) == v.s

----------------------------------------------------------------------------
(* ClaimReconciliationEngine._create_match_key *)

KeySep == "|"

\* mutant of NormalizeDate: a range is replaced by its end
NormalizeDate_RangeEnd(date_of_service) ==
    IF Truthy(date_of_service) /\ Contains(PyStr(date_of_service), "-")
    THEN LET date_parts == Split(PyStr(date_of_service), "-")
         IN  IF Len(date_parts) = 2 /\ Len(date_parts[1]) = 8
             THEN Str(date_parts[2])
             ELSE date_of_service
    ELSE date_of_service

\* lines 230-235: a date range is replaced by its start
NormalizeDate(date_of_service) ==
    IF Truthy(date_of_service) /\ Contains(PyStr(date_of_service), "-")
    THEN LET date_parts == Split(PyStr(date_of_service), "-")
         IN  IF Len(date_parts) = 2 /\ Len(date_parts[1]) = 8
             THEN Str(date_parts[1])
             ELSE date_of_service
    ELSE date_of_service

\* mutant of MatchAmount: charged_amount takes precedence
MatchAmount_ChargedFirst(transaction) ==
    PyOr(transaction.charged_amount, transaction.billed_amount)

MatchAmount(transaction) ==
    PyOr(transaction.billed_amount, transaction.charged_amount)

\* mutant of CreateMatchKey: a key of one component is returned
CreateMatchKey_OneComponent(transaction) ==
    LET patient_id == transaction.patient_id
        amount == MatchAmount(transaction)
        dos == NormalizeDate(transaction.date_of_service)
        f == FloatOf(amount)
        key_parts ==
            <<PyStr(patient_id)>>
            \o (IF Truthy(dos) THEN <<PyStr(dos)>> ELSE <<>>)
            \o (IF Truthy(amount) THEN <<IntStr(IntOfFloat(f.c))>> ELSE <<>>)
    IN  IF ~Truthy(patient_id) THEN PyNone
        ELSE IF Truthy(amount) /\ f.t # "float" THEN [t |-> "raise"]
        ELSE Str(Join(key_parts, KeySep))

\* Returns Str(key), PyNone, or [t |-> "raise"] when float()/int() raises.
CreateMatchKey(transaction) ==
    LET patient_id == transaction.patient_id
        amount == MatchAmount(transaction)
        dos == NormalizeDate(transaction.date_of_service)
        f == FloatOf(amount)
        key_parts ==
            <<PyStr(patient_id)>>
            \o (IF Truthy(dos) THEN <<PyStr(dos)>> ELSE <<>>)
            \o (IF Truthy(amount) THEN <<IntStr(IntOfFloat(f.c))>> ELSE <<>>)
    IN  IF ~Truthy(patient_id) THEN PyNone
        ELSE IF Truthy(amount) /\ f.t # "float" THEN [t |-> "raise"]
        ELSE IF Len(key_parts) >= 2 THEN Str(Join(key_parts, KeySep))
        ELSE PyNone

----------------------------------------------------------------------------
(* datetime: strptime, subtraction, comparison *)

IsLeap(y) == (y % 4 = 0) /\ ((y % 100 # 0) \/ (y % 400 = 0))

DaysInMonth(y, m) ==
    IF m = 2 THEN (IF IsLeap(y) THEN 29 ELSE 28)
    ELSE IF m \in {4, 6, 9, 11} THEN 30 ELSE 31

RECURSIVE DaysBeforeMonth(_, _)
DaysBeforeMonth(y, m) ==
    IF m = 1 THEN 0 ELSE DaysBeforeMonth(y, m - 1) + DaysInMonth(y, m - 1)

\* date.toordinal(): 0001-01-01 is day 1
Ordinal(y, m, d) ==
    LET py == y - 1
    IN  py * 365 + (py \div 4) - (py \div 100) + (py \div 400)
        + DaysBeforeMonth(y, m) + d

\* the strptime directive %m: 1[0-2]|0[1-9]|[1-9]
MatchesMonth(s) ==
    /\ Len(s) \in {1, 2} /\ AllDigits(s)
    /\ NatOf(s) \in 1..12
    /\ (Len(s) = 1 => s[1] # "0")

\* the strptime directive %d: 3[01]|[12]\d|0[1-9]|[1-9]
MatchesDay(s) ==
    /\ Len(s) \in {1, 2} /\ AllDigits(s)
    /\ NatOf(s) \in 1..31
    /\ (Len(s) = 1 => s[1] # "0")

NoDate == [ok |-> FALSE]

\* datetime(y, m, d) from matched directive texts; ValueError when out of range
MakeDate(ys, ms, ds) ==
    LET y == NatOf(ys) m == NatOf(ms) d == NatOf(ds)
    IN  IF y >= 1 /\ d <= DaysInMonth(y, m)
        THEN [ok |-> TRUE, day |-> Ordinal(y, m, d), us |-> 0]
        ELSE NoDate

\* datetime.strptime(s, "%Y-%m-%d")
StrptimeDashed(s) ==
    LET p == Split(s, "-")
    IN  IF /\ Len(p) = 3
           /\ Len(p[1]) = 4 /\ AllDigits(p[1])
           /\ MatchesMonth(p[2]) /\ MatchesDay(p[3])
        THEN MakeDate(p[1], p[2], p[3])
        ELSE NoDate

\* datetime.strptime(s, "%Y%m%d"): the directives are matched as a regular
\* expression, two-digit alternatives first, backtracking to one digit.
StrptimeCompact(s) ==
    LET n == Len(s)
        ys == SubSeq(s, 1, 4)
        try(ml) == LET ms == SubSeq(s, 5, 4 + ml)
                       ds == SubSeq(s, 5 + ml, n)
                   IN  [hit |-> ml <= n - 5 /\ MatchesMonth(ms) /\ MatchesDay(ds),
                        ms |-> ms, ds |-> ds]
    IN  IF n < 6 \/ n > 8 \/ ~AllDigits(s) THEN NoDate
        ELSE IF try(2).hit THEN MakeDate(ys, try(2).ms, try(2).ds)
        ELSE IF try(1).hit THEN MakeDate(ys, try(1).ms, try(1).ds)
        ELSE NoDate

\* lines 137-143 of find_unsubmitted_claims: ok = FALSE stands for ValueError
ParseRejectionDate(rejection_date_str) ==
    IF Contains(rejection_date_str, "-")
    THEN StrptimeDashed(rejection_date_str)
    ELSE StrptimeCompact(rejection_date_str)

\* a < b for datetimes
DtLess(a, b) == a.day < b.day \/ (a.day = b.day /\ a.us < b.us)

\* dt - timedelta(days=n)
DtMinusDays(dt, n) == [ok |-> TRUE, day |-> dt.day - n, us |-> dt.us]

\* (a - b).days: timedelta normalises to 0 <= microseconds part, so this is
\* the floor of the difference in days
DaysBetween(a, b) ==
    IF a.us >= b.us THEN a.day - b.day ELSE a.day - b.day - 1

----------------------------------------------------------------------------
(* Python dict with insertion order: a sequence of [k, v] pairs *)

DictKeys(d) == {d[i].k : i \in 1..Len(d)}

DictHas(d, k) == k \in DictKeys(d)

DictGet(d, k) == d[CHOOSE i \in 1..Len(d) : d[i].k = k].v

\* mutant of DictSet: the dict is replaced by one holding the new item only
DictSet_Only(d, k, v) == <<[k |-> k, v |-> v]>>

\* mutant of DictSet: a repeated key is stored once more
DictSet_Append(d, k, v) == Append(d, [k |-> k, v |-> v])

\* d[k] = v: an existing key keeps its position
DictSet(d, k, v) ==
    IF DictHas(d, k)
    THEN [i \in 1..Len(d) |-> IF d[i].k = k THEN [k |-> k, v |-> v] ELSE d[i]]
    ELSE Append(d, [k |-> k, v |-> v])

----------------------------------------------------------------------------
(* ClaimReconciliationEngine *)

\* mutant of NewCacheEntry: the entry starts as found
NewCacheEntry_Found(rejection) ==
    [rejection_date |-> rejection.transaction_date,
     patient_id |-> rejection.patient_id,
     patient_name |-> rejection.patient_name,
     date_of_service |-> rejection.date_of_service,
     billed_amount |-> rejection.billed_amount,
     rejection_reason |-> rejection.rejection_reason,
     status_code |-> rejection.status_code,
     trace_number |-> rejection.trace_number,
     found_in_835 |-> TRUE,
     resubmission_date |-> PyNone]

\* the CacheEntry stored by add_277ca_rejections for one rejection record
NewCacheEntry(rejection) ==
    [rejection_date |-> rejection.transaction_date,
     patient_id |-> rejection.patient_id,
     patient_name |-> rejection.patient_name,
     date_of_service |-> rejection.date_of_service,
     billed_amount |-> rejection.billed_amount,
     rejection_reason |-> rejection.rejection_reason,
     status_code |-> rejection.status_code,
     trace_number |-> rejection.trace_number,
     found_in_835 |-> FALSE,
     resubmission_date |-> PyNone]

\* the loop of add_277ca_rejections over parsed_277ca["rejections"]; an
\* exception raised by _create_match_key ends the call where it occurs.
RECURSIVE AddRejections(_, _)
AddRejections(cache, rejections) ==
    IF rejections = <<>> THEN [rej |-> cache, exc |-> FALSE]
    ELSE LET rejection == Head(rejections)
             match_key == CreateMatchKey(rejection)
         IN  IF match_key.t = "raise" THEN [rej |-> cache, exc |-> TRUE]
             ELSE IF Truthy(match_key)
             THEN AddRejections(
                      DictSet(cache, match_key.s, NewCacheEntry(rejection)),
                      Tail(rejections))
             ELSE AddRejections(cache, Tail(rejections))

\* mutant of NewPaymentEntry: the billed amount is stored as paid amount
NewPaymentEntry_BilledAsPaid(claim) ==
    [payment_date |-> claim.payment_date,
     patient_id |-> claim.patient_id,
     paid_amount |-> claim.billed_amount,
     claim_status |-> claim.claim_status]

\* lines 88-93: the PaymentEntry stored for one payment record
NewPaymentEntry(claim) ==
    [payment_date |-> claim.payment_date,
     patient_id |-> claim.patient_id,
     paid_amount |-> claim.paid_amount,
     claim_status |-> claim.claim_status]

\* mutant of MarkFound: the payment date is recorded but the flag is not set
MarkFound_NoFlag(entry, claim) ==
    [entry EXCEPT !.resubmission_date = claim.payment_date]

\* lines 96-98: mark the matching rejection as resubmitted
MarkFound(entry, claim) ==
    [entry EXCEPT !.found_in_835 = TRUE,
                  !.resubmission_date = claim.payment_date]

\* the loop of add_835_payments over parsed_835["claims"]
RECURSIVE AddPayments(_, _, _)
AddPayments(rej, pay, claims) ==
    IF claims = <<>> THEN [rej |-> rej, pay |-> pay, exc |-> FALSE]
    ELSE LET claim == Head(claims)
             match_key == CreateMatchKey(claim)
         IN  IF match_key.t = "raise" THEN [rej |-> rej, pay |-> pay, exc |-> TRUE]
             ELSE IF Truthy(match_key)
             THEN AddPayments(
                      IF DictHas(rej, match_key.s)
                      THEN DictSet(rej, match_key.s,
                                   MarkFound(DictGet(rej, match_key.s), claim))
                      ELSE rej,
                      DictSet(pay, match_key.s, NewPaymentEntry(claim)),
                      Tail(claims))
             ELSE AddPayments(rej, pay, Tail(claims))

HighSeverityDays == 45

LookbackDays == 60

\* mutant of Severity: >= instead of >
Severity_AtLeast(days_since_rejection) ==
    IF days_since_rejection >= HighSeverityDays THEN "HIGH" ELSE "MEDIUM"

Severity(days_since_rejection) ==
    IF days_since_rejection > HighSeverityDays THEN "HIGH" ELSE "MEDIUM"

\* mutant of OldEnough: <= instead of <
OldEnough_Inclusive(rejection_date, current_date, days_threshold) ==
    ~DtLess(DtMinusDays(current_date, days_threshold), rejection_date)

\* line 146: rejection_date < threshold_date
OldEnough(rejection_date, current_date, days_threshold) ==
    DtLess(rejection_date, DtMinusDays(current_date, days_threshold))

NewAlert(match_key, rejection, days_since_rejection) ==
    [severity |-> Severity(days_since_rejection),
     match_key |-> match_key,
     patient_id |-> rejection.patient_id,
     patient_name |-> rejection.patient_name,
     date_of_service |-> rejection.date_of_service,
     billed_amount |-> rejection.billed_amount,
     rejection_date |-> rejection.rejection_date,
     rejection_reason |-> rejection.rejection_reason,
     days_since_rejection |-> days_since_rejection,
     estimated_revenue_loss |-> rejection.billed_amount]

\* mutant of AlertsFor: entries found in an 835 are not skipped
AlertsFor_IgnoresFound(item, days_threshold, current_date) ==
    LET rejection == item.v
        rejection_date_str == rejection.rejection_date
        rejection_date == ParseRejectionDate(PyStr(rejection_date_str))
    IN  IF ~Truthy(rejection_date_str) THEN <<>>
        ELSE IF ~rejection_date.ok THEN <<>>
        ELSE IF OldEnough(rejection_date, current_date, days_threshold)
        THEN <<NewAlert(item.k, rejection,
                        DaysBetween(current_date, rejection_date))>>
        ELSE <<>>

\* the body of the loop of find_unsubmitted_claims for one cache item:
\* the alerts it appends (none or one)
AlertsFor(item, days_threshold, current_date) ==
    LET rejection == item.v
        rejection_date_str == rejection.rejection_date
        rejection_date == ParseRejectionDate(PyStr(rejection_date_str))
    IN  IF rejection.found_in_835 THEN <<>>
        ELSE IF ~Truthy(rejection_date_str) THEN <<>>
        ELSE IF ~rejection_date.ok THEN <<>>
        ELSE IF OldEnough(rejection_date, current_date, days_threshold)
        THEN <<NewAlert(item.k, rejection,
                        DaysBetween(current_date, rejection_date))>>
        ELSE <<>>

\* mutant of CollectAlerts: a rejection date that does not parse ends the
\* loop
RECURSIVE CollectAlerts_StopsAtBadDate(_, _, _)
CollectAlerts_StopsAtBadDate(cache, days_threshold, current_date) ==
    IF cache = <<>> THEN <<>>
    ELSE IF /\ ~Head(cache).v.found_in_835
            /\ Truthy(Head(cache).v.rejection_date)
            /\ ~ParseRejectionDate(PyStr(Head(cache).v.rejection_date)).ok
         THEN <<>>
    ELSE AlertsFor(Head(cache), days_threshold, current_date)
         \o CollectAlerts_StopsAtBadDate(Tail(cache), days_threshold,
                                         current_date)

\* lines 125-170: the loop over the cache items, in insertion order
RECURSIVE CollectAlerts(_, _, _)
CollectAlerts(cache, days_threshold, current_date) ==
    IF cache = <<>> THEN <<>>
    ELSE AlertsFor(Head(cache), days_threshold, current_date)
         \o CollectAlerts(Tail(cache), days_threshold, current_date)

\* mutant of InsertByAge: the sort is ascending (reverse=True left out)
InsertByAge_Ascending(sorted, a) ==
    LET n == Cardinality({i \in 1..Len(sorted) :
                 sorted[i].days_since_rejection <= a.days_since_rejection})
    IN  SubSeq(sorted, 1, n) \o <<a>> \o SubSeq(sorted, n + 1, Len(sorted))

\* one step of the stable sort: a goes after every element that does not
\* sort after it
InsertByAge(sorted, a) ==
    LET n == Cardinality({i \in 1..Len(sorted) :
                 sorted[i].days_since_rejection >= a.days_since_rejection})
    IN  SubSeq(sorted, 1, n) \o <<a>> \o SubSeq(sorted, n + 1, Len(sorted))

\* alerts.sort(key=days_since_rejection, reverse=True): stable
RECURSIVE SortByAgeDesc(_)
SortByAgeDesc(alerts) ==
    IF alerts = <<>> THEN <<>>
    ELSE InsertByAge(SortByAgeDesc(SubSeq(alerts, 1, Len(alerts) - 1)),
                     alerts[Len(alerts)])

FindUnsubmittedClaims(cache, days_threshold, current_date) ==
    SortByAgeDesc(CollectAlerts(cache, days_threshold, current_date))

\* float(r.get("billed_amount", 0) or 0), in hundredths
AmountOrZero(v) == IF Truthy(v) THEN FloatOf(v).c ELSE 0

RECURSIVE PotentialLoss(_)
PotentialLoss(cache) ==
    IF cache = <<>> THEN 0
    ELSE (IF ~Head(cache).v.found_in_835
          THEN AmountOrZero(Head(cache).v.billed_amount) ELSE 0)
         + PotentialLoss(Tail(cache))

ReconciliationSummary(cache) ==
    LET total_rejections == Len(cache)
        resubmitted == Cardinality({i \in 1..Len(cache) : cache[i].v.found_in_835})
    IN  [total_rejections_tracked |-> total_rejections,
         successfully_resubmitted |-> resubmitted,
         still_unsubmitted |-> total_rejections - resubmitted,
         \* resubmitted / total * 100, kept as an exact fraction
         resubmission_rate |-> IF total_rejections > 0
                               THEN [num |-> resubmitted * 100, den |-> total_rejections]
                               ELSE [num |-> 0, den |-> 1],
         potential_revenue_at_risk |-> PotentialLoss(cache),
         tracking_period_days |-> LookbackDays]

\* generate_reconciliation_report, lines 273-284: the report built from the
\* alerts and the summary of one engine state
ReconciliationReport(cache, days_threshold, current_date) ==
    LET unsubmitted_alerts ==
            FindUnsubmittedClaims(cache, days_threshold, current_date)
    IN  [unsubmitted_claims |-> unsubmitted_alerts,
         summary |-> ReconciliationSummary(cache),
         alert_count |-> Len(unsubmitted_alerts),
         high_severity_count |->
             Cardinality({j \in 1..Len(unsubmitted_alerts) :
                             unsubmitted_alerts[j].severity = "HIGH"})]

----------------------------------------------------------------------------
(* Inputs of the engine specification *)

MaxOps == 3      \* calls per engine instance
MaxBatch == 1    \* records per ingestion call

P1 == <<"P", "1">>
D1 == <<"2", "0", "2", "4", "0", "1", "0", "1">>
TD1 == <<"2", "0", "2", "4", "0", "1", "0", "1">>
TD2 == <<"2", "0", "2", "3", "-", "1", "2", "-", "1", "7">>
PD1 == <<"2", "0", "2", "4", "0", "2", "1", "0">>
PD2 == <<"2", "0", "2", "4", "0", "3", "1", "5">>

\* a rejection record as the 277CA parser hands it over (no charged_amount)
Rejection(pid, dos, billed, tdate) ==
    [transaction_date |-> tdate,
     patient_id |-> pid,
     patient_name |-> Str(<<"J", " ", "D">>),
     date_of_service |-> dos,
     billed_amount |-> billed,
     charged_amount |-> PyNone,
     rejection_reason |-> Str(<<"R">>),
     status_code |-> Str(<<"4", "2">>),
     trace_number |-> Str(<<"T">>)]

TD3 == <<"2", "0", "2", "4", "-", "0", "2", "-", "3", "0">>
TD4 == <<"2", "0", "2", "4", "0", "1", "1">>

\* r1, r2: the same match key with different amounts and rejection dates;
\* r3: no amount; r4: no date of service; r5: no patient_id (no key);
\* r6: no rejection date; r7: a rejection date that is no calendar date;
\* r8: a rejection date of seven digits
RejectionRecords ==
    {Rejection(Str(P1), Str(D1), Float(15000), Str(TD1)),
     Rejection(Str(P1), Str(D1), Float(15075), Str(TD2)),
     Rejection(Str(P1), Str(D1), PyNone, Str(TD1)),
     Rejection(Str(P1), PyNone, Float(20000), Str(TD2)),
     Rejection(PyNone, Str(D1), Float(15000), Str(TD1)),
     Rejection(Str(P1), Str(D1), Float(15000), PyNone),
     Rejection(Str(P1), PyNone, Float(20000), Str(TD3)),
     Rejection(Str(P1), PyNone, Float(20000), Str(TD4))}

\* rejection records whose amount is not a finite number: the float NaN
\* (what float("nan") of an STC amount gives) and a text that is no number
BadAmountRejections ==
    {Rejection(Str(P1), Str(D1), NaN, Str(TD1)),
     Rejection(Str(P1), Str(D1), Str(<<"N", "/", "A">>), Str(TD1))}

\* a payment claim record
Claim(pid, dos, billed, charged, pdate) ==
    [payment_date |-> pdate,
     patient_id |-> pid,
     date_of_service |-> dos,
     billed_amount |-> billed,
     charged_amount |-> charged,
     paid_amount |-> Float(12000),
     claim_status |-> Str(<<"1">>)]

\* c1: billed_amount; c2: charged_amount only; c3: no amount; c4: no date
\* of service; c5: no patient_id (no key); c6: c1 paid on another date
ClaimRecords ==
    {Claim(Str(P1), Str(D1), Float(15000), PyNone, Str(PD1)),
     Claim(Str(P1), Str(D1), PyNone, Float(15000), Str(PD1)),
     Claim(Str(P1), Str(D1), PyNone, PyNone, Str(PD1)),
     Claim(Str(P1), PyNone, Float(20000), PyNone, Str(PD2)),
     Claim(PyNone, Str(D1), Float(15000), PyNone, Str(PD1)),
     Claim(Str(P1), Str(D1), Float(15000), PyNone, Str(PD2))}

\* a payment record whose charged_amount is no number
BadAmountClaims ==
    {Claim(Str(P1), Str(D1), PyNone, Str(<<"N", "/", "A">>), Str(PD1))}

\* the non-empty lists of at most MaxBatch elements of S
Batches(S) == UNION {[1..n -> S] : n \in 1..MaxBatch}

DefaultThreshold == 30

Thresholds == {DefaultThreshold, HighSeverityDays}

\* values of datetime.now(): 30 or 31 days after 2024-01-01, at midnight
\* exactly or one microsecond later
Nows == {[ok |-> TRUE, day |-> Ordinal(2024, 1, 1) + a, us |-> u] :
            a \in {30, 31}, u \in {0, 1}}

----------------------------------------------------------------------------
(* Engine operations *)

NoTxn == <<>>

ParserIdle ==
    /\ x12_content = <<>>
    /\ segments = <<>>
    /\ pos = 0
    /\ current_transaction = PyNone
    /\ acknowledgments = <<>>
    /\ result = PyNone
    /\ returned = <<>>

\* ClaimReconciliationEngine.__init__
Init ==
    /\ rejections_cache = <<>>
    /\ payments_cache = <<>>
    /\ lastOp = [op |-> "__init__"]
    /\ ret = PyNone
    /\ ops = 0
    /\ txn = NoTxn
    /\ ParserIdle

\* The engine is used as generate_reconciliation_report uses it (lines
\* 266-274): the ingestion calls come first, the queries after them.
Querying == lastOp.op \in {"find_unsubmitted_claims", "get_reconciliation_summary"}

add_277ca_rejections ==
    \E rejections \in Batches(RejectionRecords) :
        LET r == AddRejections(rejections_cache, rejections)
        IN  /\ ops < MaxOps /\ ~Querying
            /\ rejections_cache' = r.rej
            /\ lastOp' = [op |-> "add_277ca_rejections"]
            /\ ret' = IF r.exc THEN [t |-> "raise"] ELSE PyNone
            /\ ops' = ops + 1
            /\ UNCHANGED <<payments_cache, txn, parserVars>>

\* mutant of add_835_payments: the rejections are marked but the payment
\* entries are not stored
add_835_payments_ForgetsPayment ==
    \E claims \in Batches(ClaimRecords) :
        LET r == AddPayments(rejections_cache, payments_cache, claims)
        IN  /\ ops < MaxOps /\ ~Querying
            /\ rejections_cache' = r.rej
            /\ lastOp' = [op |-> "add_835_payments"]
            /\ ret' = IF r.exc THEN [t |-> "raise"] ELSE PyNone
            /\ ops' = ops + 1
            /\ UNCHANGED <<payments_cache, txn, parserVars>>

add_835_payments ==
    \E claims \in Batches(ClaimRecords) :
        LET r == AddPayments(rejections_cache, payments_cache, claims)
        IN  /\ ops < MaxOps /\ ~Querying
            /\ rejections_cache' = r.rej
            /\ payments_cache' = r.pay
            /\ lastOp' = [op |-> "add_835_payments"]
            /\ ret' = IF r.exc THEN [t |-> "raise"] ELSE PyNone
            /\ ops' = ops + 1
            /\ UNCHANGED <<txn, parserVars>>

\* mutant of find_unsubmitted_claims: the entries reported are dropped from
\* the cache
find_unsubmitted_claims_DropsReported ==
    \E days_threshold \in Thresholds, current_date \in Nows :
        LET alerts == FindUnsubmittedClaims(rejections_cache,
                                            days_threshold, current_date)
            reported == {alerts[j].match_key : j \in 1..Len(alerts)}
            kept(item) == item.k \notin reported
        IN  /\ ret' = [t |-> "list", v |-> alerts]
            /\ rejections_cache' = SelectSeq(rejections_cache, kept)
            /\ lastOp' = [op |-> "find_unsubmitted_claims",
                          days_threshold |-> days_threshold,
                          current_date |-> current_date]
            /\ UNCHANGED <<payments_cache, ops, txn, parserVars>>

find_unsubmitted_claims ==
    \E days_threshold \in Thresholds, current_date \in Nows :
        /\ ret' = [t |-> "list",
                   v |-> FindUnsubmittedClaims(rejections_cache,
                                               days_threshold, current_date)]
        /\ lastOp' = [op |-> "find_unsubmitted_claims",
                      days_threshold |-> days_threshold,
                      current_date |-> current_date]
        /\ UNCHANGED <<rejections_cache, payments_cache, ops, txn, parserVars>>

get_reconciliation_summary ==
    /\ ret' = [t |-> "dict", v |-> ReconciliationSummary(rejections_cache)]
    /\ lastOp' = [op |-> "get_reconciliation_summary"]
    /\ UNCHANGED <<rejections_cache, payments_cache, ops, txn, parserVars>>

Next ==
    \/ add_277ca_rejections
    \/ add_835_payments
    \/ find_unsubmitted_claims
    \/ get_reconciliation_summary

Spec == Init /\ [][Next]_vars

----------------------------------------------------------------------------
(* Claims about the engine, checked under Spec *)

AlertKeys(alerts) == {alerts[j].match_key : j \in 1..Len(alerts)}

SameTriple(entry, claim) ==
    /\ entry.patient_id = claim.patient_id
    /\ entry.date_of_service = claim.date_of_service
    /\ entry.billed_amount = claim.billed_amount

\* after add_835_payments has ingested claim alone: the item stored under
\* key k is marked and no query reports it
MatchedAfter(k, claim) ==
    LET post == AddPayments(rejections_cache, payments_cache, <<claim>>).rej
    IN  /\ DictGet(post, k).found_in_835
        /\ \A th \in Thresholds, now \in Nows :
              k \notin AlertKeys(FindUnsubmittedClaims(post, th, now))

\* C1 as stated: in every state add_277ca_rejections has led to, ingesting
\* a payment with the same (patient_id, date_of_service, billed_amount) as a
\* tracked rejection marks that rejection found_in_835 and removes it from
\* the result of find_unsubmitted_claims for every threshold.
C1_AsStated ==
    ~Querying =>
        \A i \in 1..Len(rejections_cache), claim \in ClaimRecords :
            SameTriple(rejections_cache[i].v, claim)
                => MatchedAfter(rejections_cache[i].k, claim)

\* C1 amended: the same, for a payment whose match key is the rejection's
\* key: same patient_id, date_of_service and billed_amount and, when
\* billed_amount is absent or zero, the same charged_amount fallback.
C1_EndToEndMatch ==
    ~Querying =>
        \A i \in 1..Len(rejections_cache), claim \in ClaimRecords :
            (/\ SameTriple(rejections_cache[i].v, claim)
             /\ CreateMatchKey(claim) = Str(rejections_cache[i].k))
                => MatchedAfter(rejections_cache[i].k, claim)

\* a rejection that was old enough to be reported has been matched by the
\* payment call that just returned
C1_Witness ==
    /\ lastOp.op = "add_835_payments"
    /\ \E i \in 1..Len(rejections_cache) :
          /\ rejections_cache[i].v.found_in_835
          /\ \E th \in Thresholds, now \in Nows :
                AlertsFor([rejections_cache[i] EXCEPT !.v.found_in_835 = FALSE],
                          th, now) # <<>>

\* the age in whole days of a cache entry at current_date
AgeDays(entry, current_date) ==
    DaysBetween(current_date, ParseRejectionDate(PyStr(entry.rejection_date)))

DateParses(entry) ==
    /\ Truthy(entry.rejection_date)
    /\ ParseRejectionDate(PyStr(entry.rejection_date)).ok

FindReturned == lastOp.op = "find_unsubmitted_claims"

\* C2 as stated: find_unsubmitted_claims reports an entry iff it is not
\* found_in_835, its rejection date parses and its age in days is strictly
\* greater than days_threshold, whatever the time of day.
C2_AsStated ==
    FindReturned =>
        \A i \in 1..Len(rejections_cache) :
            LET e == rejections_cache[i].v
            IN  rejections_cache[i].k \in AlertKeys(ret.v)
                <=> (/\ ~e.found_in_835
                     /\ DateParses(e)
                     /\ AgeDays(e, lastOp.current_date) > lastOp.days_threshold)

\* C2 amended: an entry is reported iff it is not found_in_835, its rejection
\* date parses, and midnight of that date lies more than days_threshold days
\* before now: its age in whole days exceeds days_threshold, or equals it
\* and now is past midnight.  At age = days_threshold there is no alert only
\* when now is midnight exactly.
C2_AlertIff ==
    FindReturned =>
        \A i \in 1..Len(rejections_cache) :
            LET e == rejections_cache[i].v
                age == AgeDays(e, lastOp.current_date)
            IN  rejections_cache[i].k \in AlertKeys(ret.v)
                <=> (/\ ~e.found_in_835
                     /\ DateParses(e)
                     /\ \/ age > lastOp.days_threshold
                        \/ (age = lastOp.days_threshold /\ lastOp.current_date.us > 0))

\* both outcomes at the boundary age = days_threshold have been seen: an
\* alert of exactly that age
C2_Witness ==
    /\ FindReturned
    /\ \E j \in 1..Len(ret.v) :
          ret.v[j].days_since_rejection = lastOp.days_threshold

\* an unmatched entry of age = days_threshold that a call at midnight did
\* not report
C2_WitnessMidnight ==
    /\ FindReturned
    /\ lastOp.current_date.us = 0
    /\ \E i \in 1..Len(rejections_cache) :
          LET e == rejections_cache[i].v
          IN  /\ ~e.found_in_835 /\ DateParses(e)
              /\ AgeDays(e, lastOp.current_date) = lastOp.days_threshold
              /\ rejections_cache[i].k \notin AlertKeys(ret.v)

\* C3: every alert is HIGH exactly when its age in days is greater than 45
\* and MEDIUM otherwise; with threshold 30 an unmatched rejection dated 45
\* days before now yields exactly one alert, of severity MEDIUM, and one
\* dated 46 days before now exactly one of severity HIGH.
C3_SeverityBoundary ==
    FindReturned =>
        /\ \A j \in 1..Len(ret.v) :
              /\ ret.v[j].severity \in {"HIGH", "MEDIUM"}
              /\ ret.v[j].severity = "HIGH" <=> ret.v[j].days_since_rejection > 45
        /\ lastOp.days_threshold = 30 =>
              \A i \in 1..Len(rejections_cache) :
                  LET e == rejections_cache[i].v
                      mine == {j \in 1..Len(ret.v) :
                                  ret.v[j].match_key = rejections_cache[i].k}
                  IN  (~e.found_in_835 /\ DateParses(e)
                       /\ AgeDays(e, lastOp.current_date) \in {45, 46})
                      => /\ Cardinality(mine) = 1
                         /\ \A j \in mine :
                               ret.v[j].severity =
                                   IF AgeDays(e, lastOp.current_date) = 45
                                   THEN "MEDIUM" ELSE "HIGH"

\* an alert of age exactly 45 under threshold 30
C3_Witness ==
    /\ FindReturned
    /\ lastOp.days_threshold = 30
    /\ \E j \in 1..Len(ret.v) :
          ret.v[j].days_since_rejection = 45 /\ ret.v[j].severity = "MEDIUM"

\* an alert of age exactly 46 under threshold 30
C3_WitnessHigh ==
    /\ FindReturned
    /\ lastOp.days_threshold = 30
    /\ \E j \in 1..Len(ret.v) :
          ret.v[j].days_since_rejection = 46 /\ ret.v[j].severity = "HIGH"

\* the billed amounts (hundredths) of the entries under the keys K that are
\* not found_in_835, each key once
RECURSIVE SumAtRisk(_, _)
SumAtRisk(cache, K) ==
    IF K = {} THEN 0
    ELSE LET k == CHOOSE x \in K : TRUE
             e == DictGet(cache, k)
         IN  (IF ~e.found_in_835 /\ e.billed_amount.t = "float"
              THEN e.billed_amount.c ELSE 0)
             + SumAtRisk(cache, K \ {k})

\* C4: the summary's potential_revenue_at_risk is the sum of billed_amount
\* over the entries not found_in_835, each key once; add_277ca_rejections
\* for a key already tracked replaces the entry and adds none.
C4_RevenueAtRisk ==
    /\ lastOp.op = "get_reconciliation_summary" =>
          ret.v.potential_revenue_at_risk
              = SumAtRisk(rejections_cache, DictKeys(rejections_cache))
    /\ ~Querying =>
          \A r \in RejectionRecords :
              LET k == CreateMatchKey(r)
                  post == AddRejections(rejections_cache, <<r>>).rej
              IN  k.t = "str" =>
                    /\ DictKeys(post) = DictKeys(rejections_cache) \cup {k.s}
                    /\ Len(post) = Cardinality(DictKeys(post))
                    /\ DictGet(post, k.s) = NewCacheEntry(r)
                    /\ ReconciliationSummary(post).potential_revenue_at_risk
                          = SumAtRisk(post, DictKeys(post))

\* a summary over a cache holding a matched entry and an unmatched one, both
\* with an amount
C4_Witness ==
    /\ lastOp.op = "get_reconciliation_summary"
    /\ ret.v.potential_revenue_at_risk > 0
    /\ \E i, j \in 1..Len(rejections_cache) :
          /\ rejections_cache[i].v.found_in_835
          /\ Truthy(rejections_cache[i].v.billed_amount)
          /\ ~rejections_cache[j].v.found_in_835
          /\ Truthy(rejections_cache[j].v.billed_amount)

\* C12 as stated: a key of the rejection cache is there after every later
\* operation, and the entry under it is changed only by add_835_payments.
C12_AsStated ==
    [][\A k \in DictKeys(rejections_cache) :
          /\ DictHas(rejections_cache', k)
          /\ DictGet(rejections_cache', k) # DictGet(rejections_cache, k)
                => lastOp'.op = "add_835_payments"
      ]_vars

\* C12 amended: a key of the rejection cache is there after every later
\* operation; the entry under it is changed only by add_835_payments, which
\* sets found_in_835 and records a payment date as resubmission_date and
\* changes no other field, or by add_277ca_rejections of a record with the
\* same key, which replaces the entry by a new one with found_in_835 false
\* and no resubmission_date.
C12_EntryLifecycle ==
    [][\A k \in DictKeys(rejections_cache) :
          /\ DictHas(rejections_cache', k)
          /\ LET old == DictGet(rejections_cache, k)
                 new == DictGet(rejections_cache', k)
             IN  new # old =>
                   \/ /\ lastOp'.op = "add_835_payments"
                      /\ new.found_in_835
                      /\ new = [old EXCEPT
                                  !.found_in_835 = TRUE,
                                  !.resubmission_date = new.resubmission_date]
                      /\ DictHas(payments_cache', k)
                      /\ new.resubmission_date
                            = DictGet(payments_cache', k).payment_date
                   \/ /\ lastOp'.op = "add_277ca_rejections"
                      /\ ~new.found_in_835
                      /\ new.resubmission_date = PyNone
      ]_vars

\* an entry marked by a payment is still there, as the payment left it,
\* after a later add_277ca_rejections
C12_Witness ==
    /\ lastOp.op = "add_277ca_rejections"
    /\ Len(rejections_cache) >= 2
    /\ \E i \in 1..Len(rejections_cache) :
          /\ rejections_cache[i].v.found_in_835
          /\ rejections_cache[i].v.resubmission_date = Str(PD1)

\* C13 as stated: a PaymentEntry, once stored, is the same after every
\* later operation.
C13_AsStated ==
    [][\A k \in DictKeys(payments_cache) :
          /\ DictHas(payments_cache', k)
          /\ DictGet(payments_cache', k) = DictGet(payments_cache, k)
      ]_vars

\* C13 amended: a PaymentEntry, once stored, stays in the cache, and it is
\* the same after every later operation except an add_835_payments of a
\* record with the same key, which replaces it by that record's entry.
C13_PaymentEntry ==
    [][\A k \in DictKeys(payments_cache) :
          /\ DictHas(payments_cache', k)
          /\ LET old == DictGet(payments_cache, k)
                 new == DictGet(payments_cache', k)
             IN  new # old =>
                   /\ lastOp'.op = "add_835_payments"
                   /\ \E claim \in ClaimRecords :
                         /\ CreateMatchKey(claim) = Str(k)
                         /\ new = [payment_date |-> claim.payment_date,
                                   patient_id |-> claim.patient_id,
                                   paid_amount |-> claim.paid_amount,
                                   claim_status |-> claim.claim_status]
      ]_vars

\* a PaymentEntry with the later of the two payment dates is in the cache
\* after the last of three ingestion calls, none of which stored a rejection
C13_Witness ==
    /\ lastOp.op = "add_835_payments"
    /\ ops = MaxOps
    /\ rejections_cache = <<>>
    /\ Len(payments_cache) = 1
    /\ payments_cache[1].v.payment_date = Str(PD2)

\* the lists of two records
Pairs(S) == {<<a, b>> : a \in S, b \in S}

\* C14 as stated: for every record, bad amounts included,
\* add_277ca_rejections and add_835_payments complete without an exception;
\* a record without a match key changes neither cache, and the record after
\* it in the same call is processed as if it came alone.
C14_AsStated ==
    ~Querying =>
        /\ \A batch \in Pairs(RejectionRecords \cup BadAmountRejections) :
              LET both == AddRejections(rejections_cache, batch)
                  first == AddRejections(rejections_cache, <<batch[1]>>)
                  second == AddRejections(first.rej, <<batch[2]>>)
              IN  /\ ~both.exc
                  /\ both.rej = second.rej
                  /\ ~Truthy(CreateMatchKey(batch[1]))
                        => first.rej = rejections_cache
        /\ \A batch \in Pairs(ClaimRecords \cup BadAmountClaims) :
              LET both == AddPayments(rejections_cache, payments_cache, batch)
                  first == AddPayments(rejections_cache, payments_cache,
                                       <<batch[1]>>)
                  second == AddPayments(first.rej, first.pay, <<batch[2]>>)
              IN  /\ ~both.exc
                  /\ both.rej = second.rej /\ both.pay = second.pay
                  /\ ~Truthy(CreateMatchKey(batch[1]))
                        => /\ first.rej = rejections_cache
                           /\ first.pay = payments_cache

\* the rejection date is a text of the form YYYYMMDD or YYYY-MM-DD
InDateFormat(v) ==
    /\ v.t = "str"
    /\ \/ Len(v.s) = 8 /\ AllDigits(v.s)
       \/ /\ Len(v.s) = 10
          /\ v.s[5] = "-" /\ v.s[8] = "-"
          /\ AllDigits(SubSeq(v.s, 1, 4) \o SubSeq(v.s, 6, 7)
                       \o SubSeq(v.s, 9, 10))

C16_SortedByAge ==
    FindReturned =>
        \A j \in 1..(Len(ret.v) - 1) :
            ret.v[j].days_since_rejection >= ret.v[j + 1].days_since_rejection

\* two alerts of different ages came back in the order opposite to that of
\* their entries in the cache
C16_Witness ==
    /\ FindReturned
    /\ Len(ret.v) = 2
    /\ Len(rejections_cache) = 2
    /\ ret.v[1].match_key = rejections_cache[2].k
    /\ ret.v[2].match_key = rejections_cache[1].k
    /\ ret.v[1].days_since_rejection > ret.v[2].days_since_rejection

QueryOps == {"find_unsubmitted_claims", "get_reconciliation_summary"}

\* C17: a step of find_unsubmitted_claims or get_reconciliation_summary
\* leaves both caches as they are, and a step that changes a cache is a
\* step of add_277ca_rejections or add_835_payments.
C17_QueriesReadOnly ==
    [][/\ lastOp'.op \in QueryOps
          => UNCHANGED <<rejections_cache, payments_cache>>
       /\ <<rejections_cache, payments_cache>>'
             # <<rejections_cache, payments_cache>>
          => lastOp'.op \in {"add_277ca_rejections", "add_835_payments"}
      ]_vars

\* find_unsubmitted_claims has returned alerts over caches that hold a
\* rejection and a payment
C17_Witness ==
    /\ FindReturned
    /\ ret.v # <<>>
    /\ rejections_cache # <<>>
    /\ payments_cache # <<>>

\* the rejection and payment records that produce the same match key
SameKeyPairs ==
    {p \in RejectionRecords \X ClaimRecords :
        /\ CreateMatchKey(p[1]).t = "str"
        /\ CreateMatchKey(p[1]) = CreateMatchKey(p[2])}

\* found_in_835 of the entry of rejection after add_277ca_rejections and
\* then add_835_payments, from the present caches
FlagRejectionFirst(rejection, claim) ==
    LET a == AddRejections(rejections_cache, <<rejection>>).rej
        b == AddPayments(a, payments_cache, <<claim>>).rej
    IN  DictGet(b, CreateMatchKey(rejection).s).found_in_835

\* the same after add_835_payments and then add_277ca_rejections
FlagPaymentFirst(rejection, claim) ==
    LET a == AddPayments(rejections_cache, payments_cache, <<claim>>).rej
        b == AddRejections(a, <<rejection>>).rej
    IN  DictGet(b, CreateMatchKey(rejection).s).found_in_835

\* C26 as stated: for a rejection record and a payment record with the
\* same match key, found_in_835 after both have been ingested is the same
\* whether add_rejections ran before add_payments or after it.
C26_AsStated ==
    ~Querying =>
        \A p \in SameKeyPairs :
            FlagRejectionFirst(p[1], p[2]) = FlagPaymentFirst(p[1], p[2])

\* C26 amended: the flag depends on the order; it is true when
\* add_rejections ran before add_payments and false when it ran after,
\* whatever the caches held before.
C26_OrderDecidesFlag ==
    ~Querying =>
        \A p \in SameKeyPairs :
            /\ FlagRejectionFirst(p[1], p[2])
            /\ ~FlagPaymentFirst(p[1], p[2])

\* a payment was ingested first and a rejection with its key after it: the
\* key is in both caches and the rejection is not marked
C26_Witness ==
    /\ lastOp.op = "add_277ca_rejections"
    /\ \E k \in DictKeys(rejections_cache) \cap DictKeys(payments_cache) :
          ~DictGet(rejections_cache, k).found_in_835

\* C29: in every reachable engine state, each rejection entry with
\* found_in_835 true has its key in the payment cache, and each rejection
\* entry with found_in_835 false has no resubmission_date.
C29_CrossCache ==
    \A i \in 1..Len(rejections_cache) :
        LET entry == rejections_cache[i].v
        IN  /\ entry.found_in_835 =>
                  DictHas(payments_cache, rejections_cache[i].k)
            /\ ~entry.found_in_835 => entry.resubmission_date = PyNone

\* one tracked rejection has been matched by a payment and another has not
C29_Witness ==
    \E i, j \in 1..Len(rejections_cache) :
        /\ rejections_cache[i].v.found_in_835
        /\ rejections_cache[i].v.resubmission_date # PyNone
        /\ DictHas(payments_cache, rejections_cache[i].k)
        /\ ~rejections_cache[j].v.found_in_835

\* the alerts and the report agree with the caches they were computed from
AlertsAgreeWith(report) ==
    LET alerts == report.unsubmitted_claims
        summary == report.summary
    IN  /\ \A j \in 1..Len(alerts) :
              /\ DictHas(rejections_cache, alerts[j].match_key)
              /\ ~DictGet(rejections_cache, alerts[j].match_key).found_in_835
        /\ \A j, m \in 1..Len(alerts) :
              alerts[j].match_key = alerts[m].match_key => j = m
        /\ report.alert_count = Len(alerts)
        /\ report.alert_count <= summary.still_unsubmitted
        /\ summary.still_unsubmitted
              = summary.total_rejections_tracked
                - summary.successfully_resubmitted
        /\ summary.total_rejections_tracked = Len(rejections_cache)
        /\ summary.successfully_resubmitted
              = Cardinality({i \in 1..Len(rejections_cache) :
                                rejections_cache[i].v.found_in_835})

\* C30: in every reachable engine state, for every threshold and time of
\* the query, each alert names a key of the rejection cache whose
\* found_in_835 is false, no key is in two alerts, and the number of alerts
\* (the report's alert_count) is at most summary().still_unsubmitted, which
\* is the total tracked minus the resubmitted.  In the states the
\* ingestion calls lead to, the queries are applied for every threshold and
\* time; in the states a query has led to, whose caches are those of the
\* state before, the query made is looked at.
C30_AlertsAgree ==
    /\ ~Querying =>
          \A th \in Thresholds, now \in Nows :
              AlertsAgreeWith(ReconciliationReport(rejections_cache, th, now))
    /\ FindReturned =>
          AlertsAgreeWith([unsubmitted_claims |-> ret.v,
                           summary |-> ReconciliationSummary(rejections_cache),
                           alert_count |-> Len(ret.v)])

\* a query returned one alert while more than one tracked rejection is
\* unsubmitted: the others are too recent or have no usable date
C30_Witness ==
    /\ lastOp.op = "find_unsubmitted_claims"
    /\ Len(ret.v) = 1
    /\ Len(rejections_cache) >= 2
    /\ ReconciliationSummary(rejections_cache).still_unsubmitted > Len(ret.v)

----------------------------------------------------------------------------
(* _create_match_key as a function of its argument: SpecKey draws one      *)
(* rejection record and one payment record and applies it to both          *)

P2 == <<"P", "2">>
D1Range == D1 \o <<"-">> \o <<"2", "0", "2", "4", "0", "1", "0", "6">>
D1Dashed == <<"2", "0", "2", "4", "-", "0", "1", "-", "0", "1">>

\* P1P2: a patient_id that contains the separator of the key
P1P2 == P1 \o <<"|">> \o P2

KeyPatientIds == {PyNone, Str(<<>>), Str(P1), Str(P2), Str(P1P2)}
D1ShortEnd == D1 \o <<"-", "0", "1", "0", "6">>
ShortStart == <<"2", "0", "2", "4", "-">> \o D1
\* dates that read as an amount, and that contain the separator of the key
Date150 == <<"1", "5", "0">>
P2D1 == P2 \o <<"|">> \o D1

KeyDates == {PyNone, Str(<<>>), Str(D1), Str(D1Range), Str(D1Dashed),
             Str(D1ShortEnd), Str(ShortStart), Str(Date150), Str(P2D1)}
KeyBilled == {PyNone, Float(0), Float(15000), Float(15075), Float(-50)}
KeyCharged == {PyNone, Float(20000)}

KeyRejections ==
    {[Rejection(pid, dos, billed, Str(TD1)) EXCEPT !.charged_amount = charged] :
        pid \in KeyPatientIds, dos \in KeyDates,
        billed \in KeyBilled, charged \in KeyCharged}

KeyClaims ==
    {Claim(pid, dos, billed, charged, Str(PD1)) :
        pid \in KeyPatientIds, dos \in KeyDates,
        billed \in KeyBilled, charged \in KeyCharged}

InitKey ==
    /\ txn \in KeyRejections \X KeyClaims
    /\ lastOp = [op |-> "input"]
    /\ ret = PyNone
    /\ rejections_cache = <<>>
    /\ payments_cache = <<>>
    /\ ops = 0
    /\ ParserIdle

create_match_key ==
    /\ lastOp.op = "input"
    /\ ret' = [t |-> "tuple",
               v |-> <<CreateMatchKey(txn[1]), CreateMatchKey(txn[2])>>]
    /\ lastOp' = [op |-> "_create_match_key"]
    /\ UNCHANGED <<rejections_cache, payments_cache, ops, txn, parserVars>>

NextKey == create_match_key

SpecKey == InitKey /\ [][NextKey]_vars

KeysReturned == lastOp.op = "_create_match_key"

\* a field is present: it is neither None nor the empty text
Present(v) == v # PyNone /\ v # Str(<<>>)

\* the components of the key in the order patient_id, date, amount, each
\* preceded by the separator except the first
ExpectedKey(t) ==
    LET amount == PyOr(t.billed_amount, t.charged_amount)
        dos == NormalizeDate(t.date_of_service)
    IN  t.patient_id.s
        \o (IF Truthy(dos) THEN <<"|">> \o dos.s ELSE <<>>)
        \o (IF Truthy(amount)
            THEN <<"|">> \o IntStr(IntOfFloat(amount.c)) ELSE <<>>)

\* C5 as stated: a key is returned iff patient_id is present and at least
\* one of date_of_service and billed_amount is present.
C5_AsStated ==
    KeysReturned =>
        \A n \in 1..2 :
            ret.v[n] # PyNone
            <=> (/\ Present(txn[n].patient_id)
                 /\ \/ Present(txn[n].date_of_service)
                    \/ Present(txn[n].billed_amount))

\* C5 amended: for numeric amounts a key is returned iff patient_id is
\* non-empty and at least one of date_of_service (non-empty) and the amount
\* (billed_amount when non-zero, otherwise charged_amount when non-zero) is
\* there; the key is those components in the order patient_id, date, amount
\* joined by "|".
C5_KeyValidity ==
    KeysReturned =>
        \A n \in 1..2 :
            /\ ret.v[n] # PyNone
               <=> (/\ Truthy(txn[n].patient_id)
                    /\ \/ Truthy(txn[n].date_of_service)
                       \/ Truthy(txn[n].billed_amount)
                       \/ Truthy(txn[n].charged_amount))
            /\ ret.v[n] # PyNone => ret.v[n] = Str(ExpectedKey(txn[n]))

\* a key of three components for the first record and no key for a second
\* record that has a patient_id and nothing else
C5_Witness ==
    /\ KeysReturned
    /\ ret.v[1] = Str(P1 \o <<"|">> \o D1 \o <<"|", "1", "5", "0">>)
    /\ Truthy(txn[2].patient_id) /\ ret.v[2] = PyNone

KeyTriple(t) == <<t.patient_id, t.date_of_service, t.billed_amount>>

\* C6 as stated: records with the same (patient_id, date_of_service,
\* billed_amount) get the same key, whatever their other fields.
C6_AsStated ==
    KeysReturned =>
        (KeyTriple(txn[1]) = KeyTriple(txn[2]) => ret.v[1] = ret.v[2])

\* C6 amended: records with the same (patient_id, date_of_service,
\* billed_amount) get the same key when billed_amount is non-zero or when
\* they also agree on charged_amount, which replaces an absent or zero
\* billed_amount; no other field of a record enters the key.
C6_KeyDeterminism ==
    KeysReturned =>
        ((/\ KeyTriple(txn[1]) = KeyTriple(txn[2])
          /\ \/ Truthy(txn[1].billed_amount)
             \/ txn[1].charged_amount = txn[2].charged_amount)
            => ret.v[1] = ret.v[2])

\* a rejection record and a payment record with the same triple and
\* different charged_amount got the same key
C6_Witness ==
    /\ KeysReturned
    /\ KeyTriple(txn[1]) = KeyTriple(txn[2])
    /\ txn[1].charged_amount # txn[2].charged_amount
    /\ ret.v[1] = ret.v[2]
    /\ ret.v[1] # PyNone

\* the key of record t when d is the date that enters it
KeyWithDate(t, d) ==
    LET amount == PyOr(t.billed_amount, t.charged_amount)
    IN  t.patient_id.s
        \o (IF Truthy(d) THEN <<"|">> \o d.s ELSE <<>>)
        \o (IF Truthy(amount)
            THEN <<"|">> \o IntStr(IntOfFloat(amount.c)) ELSE <<>>)

\* the date the claim says enters the key: the first segment of a range of
\* two 8-digit segments, and any other value as it is
StatedDate(dos) ==
    IF /\ dos.t = "str" /\ Len(dos.s) = 17 /\ dos.s[9] = "-"
       /\ AllDigits(SubSeq(dos.s, 1, 8)) /\ AllDigits(SubSeq(dos.s, 10, 17))
    THEN Str(SubSeq(dos.s, 1, 8))
    ELSE dos

StartOfRange(dos) ==
    IF /\ dos.t = "str" /\ Len(dos.s) >= 9 /\ dos.s[9] = "-"
       /\ Cardinality({i \in 1..Len(dos.s) : dos.s[i] = "-"}) = 1
    THEN Str(SubSeq(dos.s, 1, 8))
    ELSE dos

Whole(c) ==
    CHOOSE n \in -1000..1000 :
        IF c >= 0 THEN n * 100 <= c /\ c < (n + 1) * 100
        ELSE (n - 1) * 100 < c /\ c <= n * 100

\* C20 as stated: a billed_amount that is present, zero included, is in the
\* key as its integer truncation.
C20_AsStated ==
    KeysReturned =>
        \A n \in 1..2 :
            (Truthy(txn[n].patient_id) /\ txn[n].billed_amount # PyNone) =>
                ret.v[n] = Str(txn[n].patient_id.s
                    \o (IF Truthy(txn[n].date_of_service)
                        THEN <<"|">> \o NormalizeDate(txn[n].date_of_service).s
                        ELSE <<>>)
                    \o <<"|">> \o IntStr(Whole(txn[n].billed_amount.c)))

\* the amount component of the key of record t, if any
AmountComponent(t) ==
    IF t.billed_amount.t = "float" /\ t.billed_amount.c # 0
    THEN <<IntStr(Whole(t.billed_amount.c))>>
    ELSE IF t.charged_amount.t = "float" /\ t.charged_amount.c # 0
    THEN <<IntStr(Whole(t.charged_amount.c))>>
    ELSE <<>>

\* C20 amended: a billed_amount that is present and not zero is in the key
\* as its integer truncation (toward zero), so amounts with the same
\* integer part give the same component; when billed_amount is absent or
\* zero, charged_amount takes its place if present and not zero, and
\* otherwise the key has no amount component.
C20_AmountTruncated ==
    KeysReturned =>
        \A n \in 1..2 :
            Truthy(txn[n].patient_id) =>
                LET parts == <<txn[n].patient_id.s>>
                        \o (IF Truthy(txn[n].date_of_service)
                            THEN <<NormalizeDate(txn[n].date_of_service).s>>
                            ELSE <<>>)
                        \o AmountComponent(txn[n])
                IN  ret.v[n] = IF Len(parts) >= 2
                               THEN Str(Join(parts, "|")) ELSE PyNone

\* two records whose amounts, 150.00 and 150.75, differ in the cents only
\* got the same key
C20_Witness ==
    /\ KeysReturned
    /\ txn[1].billed_amount = Float(15000)
    /\ txn[2].billed_amount = Float(15075)
    /\ ret.v[1] = ret.v[2]
    /\ ret.v[1] = Str(P1 \o <<"|">> \o D1 \o <<"|", "1", "5", "0">>)

\* the three components of the key of t, each a text or None: patient_id,
\* the normalised date_of_service, the truncated amount
KeyComponents(t) ==
    LET dos == NormalizeDate(t.date_of_service)
        amount == AmountComponent(t)
    IN  <<t.patient_id,
          IF Truthy(dos) THEN dos ELSE PyNone,
          IF amount # <<>> THEN Str(amount[1]) ELSE PyNone>>

\* C28 as stated: two records get the same key only if they agree on
\* patient_id, on the normalised date (or its absence) and on the truncated
\* amount (or its absence).
C28_AsStated ==
    KeysReturned =>
        ((ret.v[1].t = "str" /\ ret.v[1] = ret.v[2])
            => KeyComponents(txn[1]) = KeyComponents(txn[2]))

\* which of date and amount the key of t has
KeyShape(t) ==
    <<KeyComponents(t)[2] # PyNone, KeyComponents(t)[3] # PyNone>>

\* neither patient_id nor date_of_service contains the separator
SeparatorFree(t) ==
    /\ t.patient_id.t = "str" => ~Contains(t.patient_id.s, KeySep)
    /\ t.date_of_service.t = "str" => ~Contains(t.date_of_service.s, KeySep)

\* C28 amended: two records whose patient_id and date_of_service do not
\* contain the separator and whose keys have the same components present
\* (both a date or both none, both an amount or both none) get the same
\* key only if they agree on all three components; a key of patient_id and
\* date alone equals a key of patient_id and amount alone exactly when the
\* patient_ids agree and the date text is the text of the truncated
\* amount.
C28_Injective ==
    (KeysReturned /\ SeparatorFree(txn[1]) /\ SeparatorFree(txn[2])
        /\ ret.v[1].t = "str" /\ ret.v[2].t = "str") =>
        LET a == KeyComponents(txn[1])
            b == KeyComponents(txn[2])
        IN  /\ (KeyShape(txn[1]) = KeyShape(txn[2]) /\ ret.v[1] = ret.v[2])
                  => a = b
            /\ (KeyShape(txn[1]) = <<TRUE, FALSE>>
                   /\ KeyShape(txn[2]) = <<FALSE, TRUE>>)
                  => (ret.v[1] = ret.v[2] <=> (a[1] = b[1] /\ a[2] = b[3]))

\* a record with patient_id and the date 150 and a record with patient_id
\* and the amount 150.00 got the same key
C28_Witness ==
    /\ KeysReturned
    /\ KeyComponents(txn[1]) = <<Str(P1), Str(Date150), PyNone>>
    /\ KeyComponents(txn[2]) = <<Str(P1), PyNone, Str(Date150)>>
    /\ ret.v[1] = Str(P1 \o <<"|">> \o Date150)
    /\ ret.v[2] = ret.v[1]

----------------------------------------------------------------------------
(* X12_277CA_Parser: field extractors.  A segment is                       *)
(* [id |-> text, elements |-> sequence of texts]; Python's elements[i] is  *)
(* elements[i + 1] here.                                                   *)

\* _init_transaction
InitTransaction ==
    [claim_id |-> PyNone,
     patient_id |-> PyNone,
     patient_name |-> PyNone,
     date_of_service |-> PyNone,
     billed_amount |-> PyNone,
     status_category |-> PyNone,
     status_code |-> PyNone,
     rejection_reason |-> PyNone,
     provider_npi |-> PyNone,
     payer_claim_control_number |-> PyNone,
     trace_number |-> PyNone]

\* mutant of ProcessNm1: the identifier is read from elements[7]
ProcessNm1_Element7(elements, transaction) ==
    IF Len(elements) < 2 THEN transaction
    ELSE IF elements[1] = <<"I", "L">>
    THEN LET named == IF Len(elements) >= 3
                      THEN [transaction EXCEPT !.patient_name =
                               Str(elements[3] \o <<" ">> \o elements[2])]
                      ELSE transaction
         IN  IF Len(elements) >= 8
             THEN [named EXCEPT !.patient_id = Str(elements[8])]
             ELSE named
    ELSE IF elements[1] = <<"1", "P">>
    THEN IF Len(elements) >= 8
         THEN [transaction EXCEPT !.provider_npi = Str(elements[8])]
         ELSE transaction
    ELSE transaction

\* lines 267-282
ProcessNm1(elements, transaction) ==
    IF Len(elements) < 2 THEN transaction
    ELSE IF elements[1] = <<"I", "L">>
    THEN LET named == IF Len(elements) >= 3
                      THEN [transaction EXCEPT !.patient_name =
                               Str(elements[3] \o <<" ">> \o elements[2])]
                      ELSE transaction
         IN  IF Len(elements) >= 9
             THEN [named EXCEPT !.patient_id = Str(elements[9])]
             ELSE named
    ELSE IF elements[1] = <<"1", "P">>
    THEN IF Len(elements) >= 9
         THEN [transaction EXCEPT !.provider_npi = Str(elements[9])]
         ELSE transaction
    ELSE transaction

\* mutant of ProcessTrn: the trace number is read from elements[0]
ProcessTrn_FirstElement(elements, transaction) ==
    IF Len(elements) >= 2
    THEN [transaction EXCEPT !.trace_number = Str(elements[1])]
    ELSE transaction

ProcessTrn(elements, transaction) ==
    IF Len(elements) >= 2
    THEN [transaction EXCEPT !.trace_number = Str(elements[2])]
    ELSE transaction

ProcessStc(elements, transaction) ==
    IF Len(elements) < 1 THEN transaction
    ELSE LET status_info == elements[1]
             parts == Split(status_info, ":")
             status == IF Contains(status_info, ":")
                       THEN [transaction EXCEPT
                                !.status_category = Str(parts[1]),
                                !.status_code = Str(parts[2])]
                       ELSE transaction
         IN  IF Len(elements) >= 4 /\ elements[4] # <<>>
                /\ ParseFloat(elements[4]).t # "raise"
             THEN [status EXCEPT !.billed_amount = ParseFloat(elements[4])]
             ELSE status

\* mutant of ProcessRef: the member id is stored whether or not patient_id
\* is set
ProcessRef_Overwrites(elements, transaction) ==
    IF Len(elements) < 2 THEN transaction
    ELSE IF elements[1] = <<"D", "9">>
    THEN [transaction EXCEPT !.claim_id = Str(elements[2])]
    ELSE IF elements[1] = <<"E", "A">>
    THEN [transaction EXCEPT !.patient_id = Str(elements[2])]
    ELSE transaction

\* lines 312-325
ProcessRef(elements, transaction) ==
    IF Len(elements) < 2 THEN transaction
    ELSE IF elements[1] = <<"D", "9">>
    THEN [transaction EXCEPT !.claim_id = Str(elements[2])]
    ELSE IF elements[1] = <<"E", "A">> /\ ~Truthy(transaction.patient_id)
    THEN [transaction EXCEPT !.patient_id = Str(elements[2])]
    ELSE transaction

\* mutant of ProcessDtp: the date is the last element of a segment of two
\* or more elements
ProcessDtp_LastElement(elements, transaction) ==
    IF Len(elements) < 2 THEN transaction
    ELSE IF elements[1] = <<"4", "7", "2">>
    THEN [transaction EXCEPT !.date_of_service = Str(elements[Len(elements)])]
    ELSE transaction

\* lines 327-335
ProcessDtp(elements, transaction) ==
    IF Len(elements) < 3 THEN transaction
    ELSE IF elements[1] = <<"4", "7", "2">>
    THEN [transaction EXCEPT !.date_of_service = Str(elements[3])]
    ELSE transaction

ProcessMsg(elements, transaction) ==
    IF elements # <<>>
    THEN [transaction EXCEPT !.rejection_reason = Str(elements[1])]
    ELSE transaction

\* mutant of Dispatch: a segment of any other type is read as a message
Dispatch_OtherAsMsg(segment, transaction) ==
    CASE segment.id = <<"N", "M", "1">> -> ProcessNm1(segment.elements, transaction)
      [] segment.id = <<"T", "R", "N">> -> ProcessTrn(segment.elements, transaction)
      [] segment.id = <<"S", "T", "C">> -> ProcessStc(segment.elements, transaction)
      [] segment.id = <<"R", "E", "F">> -> ProcessRef(segment.elements, transaction)
      [] segment.id = <<"D", "T", "P">> -> ProcessDtp(segment.elements, transaction)
      [] OTHER -> ProcessMsg(segment.elements, transaction)

\* lines 95-107 of parse: route the segment to its extractor
Dispatch(segment, transaction) ==
    CASE segment.id = <<"N", "M", "1">> -> ProcessNm1(segment.elements, transaction)
      [] segment.id = <<"T", "R", "N">> -> ProcessTrn(segment.elements, transaction)
      [] segment.id = <<"S", "T", "C">> -> ProcessStc(segment.elements, transaction)
      [] segment.id = <<"R", "E", "F">> -> ProcessRef(segment.elements, transaction)
      [] segment.id = <<"D", "T", "P">> -> ProcessDtp(segment.elements, transaction)
      [] segment.id = <<"M", "S", "G">> -> ProcessMsg(segment.elements, transaction)
      [] OTHER -> transaction

----------------------------------------------------------------------------
(* X12_277CA_Parser.parse: assembler and classifier *)

ClaimLevelCode == <<"2", "2">>

\* lines 83-87: an HL segment of the claim level
IsClaimBoundary(segment) ==
    /\ segment.id = <<"H", "L">>
    /\ Len(segment.elements) >= 3
    /\ segment.elements[3] = ClaimLevelCode

\* mutant of Committed: the record is appended whether or not it has a
\* trace number
Committed_Always(acks, transaction) ==
    IF transaction # PyNone THEN Append(acks, transaction) ELSE acks

\* lines 89-90 and 110-111: append the record if it has a trace number
Committed(acks, transaction) ==
    IF transaction # PyNone /\ Truthy(transaction.trace_number)
    THEN Append(acks, transaction)
    ELSE acks

RejectedCategory == Str(<<"A", "7">>)
AcceptedCategory == Str(<<"A", "1">>)

IsRejected(ack) == ack.status_category = RejectedCategory

\* mutant of IsAccepted: every record that is not rejected counts as accepted
IsAccepted_Otherwise(ack) == ack.status_category # RejectedCategory

\* the elif of line 117: reached only when the record is not rejected
IsAccepted(ack) ==
    ack.status_category # RejectedCategory
    /\ ack.status_category = AcceptedCategory

RECURSIVE Rejections(_)
Rejections(acks) ==
    IF acks = <<>> THEN <<>>
    ELSE (IF IsRejected(Head(acks)) THEN <<Head(acks)>> ELSE <<>>)
         \o Rejections(Tail(acks))

RECURSIVE Acceptances(_)
Acceptances(acks) ==
    IF acks = <<>> THEN <<>>
    ELSE (IF IsAccepted(Head(acks)) THEN <<Head(acks)>> ELSE <<>>)
         \o Acceptances(Tail(acks))

\* mutant of RejectionRate: the division is not guarded, and dividing by
\* zero raises
RejectionRate_Unguarded(rejected, total) ==
    IF total = 0 THEN [t |-> "raise"]
    ELSE [t |-> "float", num |-> rejected * 100, den |-> total]

\* lines 125-128: rejected / total * 100, kept as an exact fraction, and 0
\* for an empty list
RejectionRate(rejected, total) ==
    IF total # 0 THEN [t |-> "float", num |-> rejected * 100, den |-> total]
    ELSE [t |-> "float", num |-> 0, den |-> 1]

\* lines 113-140: classification and summary; an exception raised on the
\* way is turned into X12ParseError
ParseResult(acks) ==
    LET rejections == Rejections(acks)
        acceptances == Acceptances(acks)
        rate == RejectionRate(Len(rejections), Len(acks))
    IN  IF rate.t = "raise" THEN [t |-> "raise", exc |-> "X12ParseError"]
        ELSE [t |-> "dict",
              transaction_type |-> "277CA",
              version |-> "005010X214",
              acknowledgments |-> acks,
              rejections |-> rejections,
              acceptances |-> acceptances,
              summary |-> [total_claims |-> Len(acks),
                           rejected_count |-> Len(rejections),
                           accepted_count |-> Len(acceptances),
                           rejection_rate |-> rate]]

----------------------------------------------------------------------------
(* X12_277CA_Parser._parse_segments: the tokenizer *)

\* s.replace(ch, "")
Remove(s, ch) == SelectSeq(s, LAMBDA c : c # ch)

\* the whitespace str.strip() removes, as far as the texts here have it
Whitespace == {" ", "\t", "\n", "\r", "\f"}

RECURSIVE LStrip(_)
LStrip(s) ==
    IF s # <<>> /\ Head(s) \in Whitespace THEN LStrip(Tail(s)) ELSE s

RECURSIVE RStrip(_)
RStrip(s) ==
    IF s # <<>> /\ s[Len(s)] \in Whitespace
    THEN RStrip(SubSeq(s, 1, Len(s) - 1)) ELSE s

\* mutant of Strip: only the left end is trimmed
Strip_LeftOnly(s) == LStrip(s)

\* line.strip()
Strip(s) == RStrip(LStrip(s))

\* lines 236-247: the loop over the pieces
RECURSIVE SegmentsOf(_)
SegmentsOf(lines) ==
    IF lines = <<>> THEN <<>>
    ELSE LET line == Strip(Head(lines))
             elements == Split(line, "*")
         IN  (IF line = <<>> THEN <<>>
              ELSE <<[id |-> elements[1],
                      elements |-> IF Len(elements) > 1
                                   THEN Tail(elements) ELSE <<>>]>>)
             \o SegmentsOf(Tail(lines))

\* _parse_segments
ParseSegments(content) == SegmentsOf(Split(Remove(content, "\n"), "~"))

MaxText == 5     \* length of a document text

TextChars == {"~", "*", "\n", "\r", " ", "A", "B"}

Texts == UNION {[1..n -> TextChars] : n \in 0..MaxText}

InitTok ==
    /\ x12_content \in Texts
    /\ segments = <<>>
    /\ pos = 0
    /\ current_transaction = PyNone
    /\ acknowledgments = <<>>
    /\ result = PyNone
    /\ returned = <<>>
    /\ lastOp = [op |-> "input"]
    /\ ret = PyNone
    /\ rejections_cache = <<>>
    /\ payments_cache = <<>>
    /\ ops = 0
    /\ txn = <<>>

parse_segments ==
    /\ lastOp.op = "input"
    /\ segments' = ParseSegments(x12_content)
    /\ lastOp' = [op |-> "_parse_segments"]
    /\ UNCHANGED <<x12_content, pos, current_transaction, acknowledgments,
                   result, returned, rejections_cache, payments_cache, ret, ops, txn>>

NextTok == parse_segments

SpecTok == InitTok /\ [][NextTok]_vars

----------------------------------------------------------------------------
(* Inputs of the parser specification: tokenised segment streams *)

MaxSegs == 4     \* length of a stream of arbitrary segments
MaxClaims == 3   \* claim blocks in a stream of claim blocks

Seg(id, elements) == [id |-> id, elements |-> elements]

HL22 == Seg(<<"H", "L">>, << <<"1">>, <<>>, <<"2", "2">>, <<"0">> >>)
HL20 == Seg(<<"H", "L">>, << <<"1">>, <<>>, <<"2", "0">>, <<"1">> >>)
HLShort == Seg(<<"H", "L">>, << <<"1">>, <<>> >>)
TRN1 == Seg(<<"T", "R", "N">>, << <<"1">>, <<"T", "1">> >>)
TRN2 == Seg(<<"T", "R", "N">>, << <<"1">>, <<"T", "2">> >>)
TRNEmpty == Seg(<<"T", "R", "N">>, << <<"1">>, <<>> >>)
TRNShort == Seg(<<"T", "R", "N">>, << <<"1">> >>)
STC_A7 == Seg(<<"S", "T", "C">>,
              << <<"A", "7", ":", "4", "2">>, D1, <<"U">>,
                 <<"1", "5", "0", ".", "0", "0">> >>)
STC_A1 == Seg(<<"S", "T", "C">>,
              << <<"A", "1", ":", "2", "0">>, D1, <<"W", "Q">>,
                 <<"2", "0", "0", ".", "5", "0">> >>)
STC_A3 == Seg(<<"S", "T", "C">>, << <<"A", "3", ":", "2", "1">>, D1 >>)
NM1_IL == Seg(<<"N", "M", "1">>,
              << <<"I", "L">>, <<"1">>, <<"D", "O", "E">>, <<"J">>, <<>>,
                 <<>>, <<>>, <<"M", "I">>, P1 >>)
REF_EA == Seg(<<"R", "E", "F">>, << <<"E", "A">>, P2 >>)
DTP_472 == Seg(<<"D", "T", "P">>, << <<"4", "7", "2">>, <<"D", "8">>, D1 >>)
MSG1 == Seg(<<"M", "S", "G">>, << <<"B", "A", "D">> >>)

AsmSegments == {HL22, HL20, HLShort, TRN1, TRN2, TRNEmpty, TRNShort, STC_A7}

N9 == <<"N", "9">>

\* name segments: a patient without identifier text, a provider, and a
\* role the extractor does not read
NM1_ILBlank == Seg(<<"N", "M", "1">>,
                   << <<"I", "L">>, <<"1">>, <<"D", "O", "E">>, <<"J">>, <<>>,
                      <<>>, <<>>, <<"M", "I">>, <<>> >>)
NM1_1P == Seg(<<"N", "M", "1">>,
              << <<"1", "P">>, <<"2">>, <<"C", "L", "I", "N", "I", "C">>, <<>>,
                 <<>>, <<>>, <<>>, <<"X", "X">>, N9 >>)
NM1_QC == Seg(<<"N", "M", "1">>,
              << <<"Q", "C">>, <<"1">>, <<"R", "O", "E">>, <<"K">>, <<>>,
                 <<>>, <<>>, <<"M", "I">>, P2 >>)

\* status segments: a number in elements[2] as well, an amount that is no
\* number, an empty amount, the amount "nan", and a status without colon
STC_Num == Seg(<<"S", "T", "C">>,
               << <<"A", "1", ":", "2", "0">>, D1, <<"9", "9">>,
                  <<"2", "0", "0", ".", "5", "0">> >>)
STC_Bad == Seg(<<"S", "T", "C">>,
               << <<"A", "7", ":", "4", "2">>, D1, <<"U">>, <<"A", "B">> >>)
STC_Empty == Seg(<<"S", "T", "C">>,
                 << <<"A", "7", ":", "4", "2">>, D1, <<"U">>, <<>> >>)
STC_NaN == Seg(<<"S", "T", "C">>,
               << <<"A", "7", ":", "4", "2">>, D1, <<"U">>, <<"n", "a", "n">> >>)
STC_NoColon == Seg(<<"S", "T", "C">>,
                   << <<"A", "7">>, D1, <<"U">>,
                      <<"1", "5", "0", ".", "0", "0">> >>)

REF_EABlank == Seg(<<"R", "E", "F">>, << <<"E", "A">>, <<>> >>)
REF_D9 == Seg(<<"R", "E", "F">>, << <<"D", "9">>, <<"C", "7">> >>)
REF_1K == Seg(<<"R", "E", "F">>, << <<"1", "K">>, <<"K", "8">> >>)
DTP_050 == Seg(<<"D", "T", "P">>, << <<"0", "5", "0">>, <<"D", "8">>, TD1 >>)
MSG2 == Seg(<<"M", "S", "G">>, << <<"W", "O", "R", "S", "E">>, <<"X">> >>)
SE_1 == Seg(<<"S", "E">>, << <<"7">>, <<"0", "0", "0", "1">> >>)

\* a segment cut short: its first n elements, for every n
Truncations(segment) ==
    {Seg(segment.id, SubSeq(segment.elements, 1, n)) :
        n \in 0..Len(segment.elements)}

ExtSegments ==
    UNION {Truncations(segment) :
        segment \in {NM1_IL, NM1_ILBlank, NM1_1P, NM1_QC, TRN1,
                     STC_A7, STC_Num, STC_Bad, STC_Empty, STC_NaN, STC_NoColon,
                     REF_EA, REF_EABlank, REF_D9, REF_1K, DTP_472, DTP_050,
                     MSG1, MSG2, SE_1, HL20}}

\* a claim with every field of the record set
FullClaim == <<HL22, NM1_IL, NM1_1P, TRN1, STC_A7, REF_D9, DTP_472, MSG1>>

\* one segment of any shape: at the start of the stream, at the start of a
\* claim, and after a claim's other segments
ExtStreams ==
    {before \o <<segment>> :
        before \in {<<>>, <<HL22>>, FullClaim}, segment \in ExtSegments}

MaxPid == 3      \* segments carrying a patient identifier in one claim

PidSegments == {NM1_IL, NM1_ILBlank, NM1_QC, REF_EA, REF_EABlank}

\* one claim with up to MaxPid name and member-id segments, in every order
PidStreams ==
    UNION {{<<HL22>> \o ids : ids \in [1..n -> PidSegments]} : n \in 0..MaxPid}

\* every stream of at most MaxSegs of the segments above
FreeStreams == UNION {[1..n -> AsmSegments] : n \in 0..MaxSegs}

\* one claim: its boundary, then optionally a trace and a status segment,
\* or all the segment types of a claim
Blocks ==
    {<<HL22>> \o trn \o stc :
        trn \in {<<>>, <<TRN1>>, <<TRN2>>},
        stc \in {<<>>, <<STC_A7>>, <<STC_A1>>, <<STC_A3>>}}
    \cup {<<HL22, NM1_IL, TRN1, STC_A7, REF_EA, DTP_472, MSG1>>}

RECURSIVE BlockStreams(_)
BlockStreams(n) ==
    IF n = 0 THEN {<<>>}
    ELSE {b \o rest : b \in Blocks, rest \in BlockStreams(n - 1)}

ClaimStreams == UNION {BlockStreams(n) : n \in 1..MaxClaims}

----------------------------------------------------------------------------
(* parse, one loop iteration per step *)

EngineIdle ==
    /\ rejections_cache = <<>>
    /\ payments_cache = <<>>
    /\ ops = 0
    /\ txn = NoTxn

\* lines 64-76: the state before the loop
InitParse ==
    /\ x12_content = <<>>
    /\ segments \in FreeStreams \cup ClaimStreams \cup ExtStreams \cup PidStreams
    /\ pos = 0
    /\ current_transaction = PyNone
    /\ acknowledgments = <<>>
    /\ result = PyNone
    /\ returned = <<>>
    /\ lastOp = [op |-> "parse"]
    /\ ret = PyNone
    /\ EngineIdle

\* mutant of parse: the record list outlives the call, as a list kept on
\* the instance would
parse_KeepsRecords ==
    /\ result # PyNone
    /\ returned = <<>>
    /\ returned' = Append(returned, result)
    /\ pos' = 0
    /\ current_transaction' = PyNone
    /\ result' = PyNone
    /\ UNCHANGED <<x12_content, segments, acknowledgments, engineVars, txn>>

\* lines 59-76: parse is called again, on the same instance and the same
\* text, after it has returned; result and current_transaction are locals
\* of the call and start afresh
parse ==
    /\ result # PyNone
    /\ returned = <<>>
    /\ returned' = Append(returned, result)
    /\ pos' = 0
    /\ current_transaction' = PyNone
    /\ acknowledgments' = <<>>
    /\ result' = PyNone
    /\ UNCHANGED <<x12_content, segments, engineVars, txn>>

\* lines 78-107: the loop body for the next segment
ParseSegment ==
    /\ result = PyNone
    /\ pos < Len(segments)
    /\ LET segment == segments[pos + 1]
           boundary == IsClaimBoundary(segment)
           started == IF boundary THEN InitTransaction ELSE current_transaction
       IN  /\ acknowledgments' =
                 IF boundary
                 THEN Committed(acknowledgments, current_transaction)
                 ELSE acknowledgments
           /\ current_transaction' =
                 IF started # PyNone THEN Dispatch(segment, started) ELSE started
    /\ pos' = pos + 1
    /\ UNCHANGED <<x12_content, segments, result, returned, engineVars, txn>>

\* lines 109-140: the last commit, the classification and the return
ParseReturn ==
    /\ result = PyNone
    /\ pos = Len(segments)
    /\ acknowledgments' = Committed(acknowledgments, current_transaction)
    /\ result' = ParseResult(acknowledgments')
    /\ UNCHANGED <<x12_content, segments, pos, current_transaction, returned,
                   engineVars, txn>>

NextParse == parse \/ ParseSegment \/ ParseReturn

SpecParse == InitParse /\ [][NextParse]_vars

----------------------------------------------------------------------------
(* Claims about the assembler and the classifier, checked under SpecParse *)

\* an HL segment whose third element is "22"
ClaimLevelHL(segment) ==
    /\ segment.id = <<"H", "L">>
    /\ Len(segment.elements) >= 3
    /\ segment.elements[3] = <<"2", "2">>

HasTrace(transaction) ==
    /\ transaction # PyNone
    /\ transaction.trace_number \notin {PyNone, Str(<<>>)}

Returned == result # PyNone

\* C7: at every claim-level HL segment the current record is appended to
\* the output iff its trace_number is set, and a blank record becomes
\* current; no other segment changes the output; at stream end the current
\* record is committed under the same condition; every record in the output
\* has a non-empty trace_number.
C7_CommitRule ==
    [][/\ (pos' = pos + 1 /\ ClaimLevelHL(segments[pos + 1])) =>
              /\ acknowledgments' =
                    IF HasTrace(current_transaction)
                    THEN Append(acknowledgments, current_transaction)
                    ELSE acknowledgments
              /\ current_transaction' = InitTransaction
       /\ (pos' = pos + 1 /\ ~ClaimLevelHL(segments[pos + 1])) =>
              acknowledgments' = acknowledgments
       /\ (~Returned /\ Returned') =>
              /\ result'.t = "dict"
              /\ result'.acknowledgments =
                    IF HasTrace(current_transaction)
                    THEN Append(acknowledgments, current_transaction)
                    ELSE acknowledgments
       /\ \A i \in 1..Len(acknowledgments') :
              HasTrace(acknowledgments'[i])
      ]_vars

Boundaries(stream) == {i \in 1..Len(stream) : ClaimLevelHL(stream[i])}

\* a stream of three claims returned two records, T1 before T2, and dropped
\* the claim without a trace number
C7_Witness ==
    /\ Returned
    /\ Cardinality(Boundaries(segments)) = 3
    /\ Len(result.acknowledgments) = 2
    /\ result.acknowledgments[1].trace_number = Str(<<"T", "1">>)
    /\ result.acknowledgments[2].trace_number = Str(<<"T", "2">>)

\* the segments of the claim that starts at boundary i
ClaimSpan(stream, i) ==
    {j \in (i + 1)..Len(stream) :
        \A b \in Boundaries(stream) : b <= i \/ b > j}

IsTRN(segment) == segment.id = <<"T", "R", "N">>

\* C8 as stated: the number of committed records with non-empty
\* trace_number is the number of claim-level boundaries followed by a trace
\* segment before the next boundary.
C8_AsStated ==
    Returned =>
        Cardinality({k \in 1..Len(result.acknowledgments) :
                        HasTrace(result.acknowledgments[k])})
        = Cardinality({i \in Boundaries(segments) :
                        \E j \in ClaimSpan(segments, i) : IsTRN(segments[j])})

\* the trace segments of the claim at boundary i that carry a trace element
TraceSegments(stream, i) ==
    {j \in ClaimSpan(stream, i) :
        IsTRN(stream[j]) /\ Len(stream[j].elements) >= 2}

\* C8 amended: the number of committed records (all with non-empty
\* trace_number) is the number of claim-level boundaries whose last trace
\* segment with at least two elements, before the next boundary, has a
\* non-empty element[1].
C8_CommittedCount ==
    Returned =>
        /\ \A k \in 1..Len(result.acknowledgments) :
              HasTrace(result.acknowledgments[k])
        /\ Len(result.acknowledgments)
           = Cardinality({i \in Boundaries(segments) :
                 LET T == TraceSegments(segments, i)
                 IN  /\ T # {}
                     /\ segments[CHOOSE j \in T : \A m \in T : m <= j]
                            .elements[2] # <<>>})

\* a returned stream in which one claim has a usable trace segment and
\* another a trace segment without a trace number
C8_Witness ==
    /\ Returned
    /\ Len(result.acknowledgments) = 1
    /\ \E i \in Boundaries(segments) :
          \E j \in ClaimSpan(segments, i) :
              segments[j] \in {TRNEmpty, TRNShort}
    /\ Cardinality({i \in Boundaries(segments) :
          \E j \in ClaimSpan(segments, i) : IsTRN(segments[j])}) = 2

\* C9 as stated: parse raises a parse failure iff the stream yields zero
\* committed records.
C9_AsStated ==
    Returned => (result.t = "raise" <=> acknowledgments = <<>>)

ZeroRate == [t |-> "float", num |-> 0, den |-> 1]

\* C9 amended: parse raises for no segment stream; a stream that yields
\* zero committed records returns normally, with empty acknowledgments,
\* rejections and acceptances, total_claims 0 and rejection_rate 0.
C9_EmptyResult ==
    Returned =>
        /\ result.t = "dict"
        /\ acknowledgments = <<>> =>
              /\ result.acknowledgments = <<>>
              /\ result.rejections = <<>>
              /\ result.acceptances = <<>>
              /\ result.summary.total_claims = 0
              /\ result.summary.rejection_rate = ZeroRate

\* a stream with a claim-level boundary whose records all lack a trace
\* number has returned normally
C9_Witness ==
    /\ Returned
    /\ result.t = "dict"
    /\ result.acknowledgments = <<>>
    /\ Boundaries(segments) # {}

CategoryA7(ack) == ack.status_category = Str(<<"A", "7">>)

CategoryA1(ack) == ack.status_category = Str(<<"A", "1">>)

\* C10: rejections is the sub-list of acknowledgments of category A7 and
\* acceptances the sub-list of category A1, in order; every record counts
\* in total_claims; the two sub-lists together are no longer than
\* acknowledgments, and as long iff every record is A7 or A1.
C10_Partition ==
    (Returned /\ result.t = "dict") =>
        LET acks == result.acknowledgments
        IN  /\ result.rejections = SelectSeq(acks, CategoryA7)
            /\ result.acceptances = SelectSeq(acks, CategoryA1)
            /\ result.summary.total_claims = Len(acks)
            /\ Len(result.rejections) + Len(result.acceptances) <= Len(acks)
            /\ Len(result.rejections) + Len(result.acceptances) = Len(acks)
               <=> \A i \in 1..Len(acks) :
                      acks[i].status_category
                          \in {Str(<<"A", "7">>), Str(<<"A", "1">>)}

\* a result with a rejection, an acceptance and a record of another category
C10_Witness ==
    /\ Returned
    /\ Len(result.rejections) = 1
    /\ Len(result.acceptances) = 1
    /\ Len(result.acknowledgments) = 3

\* C11: a second parse of the same segment stream on the same instance
\* returns a result equal to the first one, which is the result a fresh
\* instance returns: parse carries no state from one call to the next.
C11_ParseIdempotent ==
    (Returned /\ returned # <<>>) =>
        result = returned[1]

\* the second parse of a stream with committed records has returned
C11_Witness ==
    /\ Returned
    /\ returned # <<>>
    /\ Len(result.acknowledgments) >= 2
    /\ result.rejections # <<>>

----------------------------------------------------------------------------
(* Claims about the field extractors, checked under SpecParse *)

RecognisedIds ==
    {<<"N", "M", "1">>, <<"T", "R", "N">>, <<"S", "T", "C">>,
     <<"R", "E", "F">>, <<"D", "T", "P">>, <<"M", "S", "G">>}

\* C21: a segment met while there is no current record, and a segment of
\* unrecognised type at any point (an HL segment that is no claim-level
\* boundary included), leaves the current record, if any, with all its
\* fields and adds nothing to the output list.
C21_IgnoredSegments ==
    [][pos' = pos + 1 =>
          LET segment == segments[pos + 1]
          IN  /\ (current_transaction = PyNone /\ ~ClaimLevelHL(segment)) =>
                    /\ current_transaction' = PyNone
                    /\ acknowledgments' = acknowledgments
              /\ (segment.id \notin RecognisedIds /\ ~ClaimLevelHL(segment)) =>
                    /\ current_transaction' = current_transaction
                    /\ acknowledgments' = acknowledgments
      ]_vars

\* the loop has passed an SE segment that follows a claim with all its
\* fields set
C21_Witness ==
    /\ pos = Len(FullClaim) + 1
    /\ SubSeq(segments, 1, Len(FullClaim)) = FullClaim
    /\ segments[pos] = SE_1
    /\ current_transaction.trace_number = Str(<<"T", "1">>)
    /\ current_transaction.rejection_reason = Str(<<"B", "A", "D">>)

\* the step that hands the segment at pos + 1, of type id, to its extractor
Extracts(id) ==
    /\ pos' = pos + 1
    /\ current_transaction # PyNone
    /\ segments[pos + 1].id = id

\* Python's elements[i], or "" when the segment has no such element
El(elements, i) == IF Len(elements) > i THEN elements[i + 1] ELSE <<>>

\* the record t with the fields F left out
Without(t, F) == [f \in (DOMAIN t) \ F |-> t[f]]

\* what a name segment does to the record when the identifier is
\* elements[idAt]
NameSegmentEffect(idAt) ==
    LET e == segments[pos + 1].elements
        old == current_transaction
        new == current_transaction'
        has_id == Len(e) > idAt
    IN  CASE El(e, 0) = <<"I", "L">> ->
               /\ new.patient_name =
                     IF Len(e) >= 3 THEN Str(El(e, 2) \o <<" ">> \o El(e, 1))
                     ELSE old.patient_name
               /\ new.patient_id =
                     IF has_id THEN Str(El(e, idAt)) ELSE old.patient_id
               /\ Without(new, {"patient_name", "patient_id"})
                     = Without(old, {"patient_name", "patient_id"})
          [] El(e, 0) = <<"1", "P">> ->
               /\ new.provider_npi =
                     IF has_id THEN Str(El(e, idAt)) ELSE old.provider_npi
               /\ Without(new, {"provider_npi"}) = Without(old, {"provider_npi"})
          [] OTHER -> new = old

\* C22 as stated: for role IL patient_name is built from elements[1..2] and
\* patient_id is element[7] when present; for role 1P provider_npi is
\* element[7] when present; any other role leaves the record unchanged.
C22_AsStated ==
    [][Extracts(<<"N", "M", "1">>) => NameSegmentEffect(7)]_vars

\* C22 amended: the identifier of both roles is element[8], read when the
\* segment has at least nine elements; patient_name is elements[2], a
\* space, elements[1], set when the segment has at least three elements;
\* no other field changes, and any other role leaves the record unchanged.
C22_NamePositions ==
    [][Extracts(<<"N", "M", "1">>) => NameSegmentEffect(8)]_vars

\* the loop has passed a patient name segment of nine elements and one of
\* eight, and a provider name segment
C22_Witness ==
    /\ pos >= 1
    /\ current_transaction # PyNone
    /\ \/ /\ segments[pos] = NM1_IL
          /\ current_transaction.patient_id = Str(P1)
          /\ current_transaction.patient_name
                = Str(<<"D", "O", "E", " ", "1">>)
       \/ /\ segments[pos] = Seg(NM1_IL.id, SubSeq(NM1_IL.elements, 1, 8))
          /\ current_transaction.patient_id = PyNone
       \/ /\ segments[pos] = NM1_1P
          /\ current_transaction.provider_npi = Str(N9)

\* the text is a decimal number: an optional sign, digits, and at most one
\* decimal point
IsDecimalNumber(text) == ParseFloat(text).t = "float"

\* what a status segment does to the record when billed_amount is set from
\* the amounts that satisfy Parses
StatusSegmentEffect(Parses(_)) ==
    LET e == segments[pos + 1].elements
        old == current_transaction
        new == current_transaction'
        parts == Split(El(e, 0), ":")
    IN  /\ new # PyNone /\ DOMAIN new = DOMAIN old
        /\ new.billed_amount =
              IF Len(e) >= 4 /\ Parses(El(e, 3))
              THEN ParseFloat(El(e, 3))
              ELSE old.billed_amount
        /\ Contains(El(e, 0), ":") =>
              /\ new.status_category = Str(parts[1])
              /\ new.status_code = Str(parts[2])
        /\ Without(new, {"billed_amount", "status_category", "status_code"})
              = Without(old, {"billed_amount", "status_category", "status_code"})

\* C23 as stated: billed_amount is taken from element[3] when that element
\* is a decimal number; when element[3] is missing, empty or no decimal
\* number, no error is raised and billed_amount is not set, while
\* status_category and status_code are still taken from the colon-delimited
\* element[0].
C23_AsStated ==
    [][Extracts(<<"S", "T", "C">>) => StatusSegmentEffect(IsDecimalNumber)]_vars

\* the segments of the current record read so far: those after the last
\* claim-level boundary up to pos
RecordSoFar ==
    LET B == {i \in Boundaries(segments) : i <= pos}
        b == CHOOSE i \in B : \A m \in B : m <= i
    IN  SubSeq(segments, b + 1, pos)

\* the positions of the patient name segments that carry element[8]
NameIdAt(segs) ==
    {j \in 1..Len(segs) :
        /\ segs[j].id = <<"N", "M", "1">>
        /\ Len(segs[j].elements) >= 9
        /\ segs[j].elements[1] = <<"I", "L">>}

\* the positions of the member-id reference segments that carry element[1]
MemberIdAt(segs) ==
    {j \in 1..Len(segs) :
        /\ segs[j].id = <<"R", "E", "F">>
        /\ Len(segs[j].elements) >= 2
        /\ segs[j].elements[1] = <<"E", "A">>}

\* a member-id segment met now keeps a patient_id that is not empty, and
\* sets its own value otherwise
MemberIdIsFallback ==
    ProcessRef(REF_EA.elements, current_transaction).patient_id
        = IF current_transaction.patient_id \in {PyNone, Str(<<>>)}
          THEN Str(P2)
          ELSE current_transaction.patient_id

\* C24 as stated: a member-id segment sets patient_id only when it is not
\* already set; whenever a name segment of the record supplied an
\* identifier (one that is not empty), patient_id is a name-segment
\* identifier, and otherwise it is unset or a member-id value.
C24_AsStated ==
    current_transaction # PyNone =>
        LET segs == RecordSoFar
            nameIds == {Str(segs[j].elements[9]) : j \in NameIdAt(segs)}
                           \ {Str(<<>>)}
            memberIds == {Str(segs[j].elements[2]) : j \in MemberIdAt(segs)}
        IN  /\ MemberIdIsFallback
            /\ IF nameIds # {}
               THEN current_transaction.patient_id \in nameIds
               ELSE current_transaction.patient_id
                        \in {PyNone, Str(<<>>)} \cup memberIds

\* patient_id after the segments segs of one record: the identifier of the
\* last name segment when it is not empty, and otherwise the first
\* non-empty member-id value that follows that name segment
ExpectedPatientId(segs) ==
    LET N == NameIdAt(segs)
        lastN == IF N = {} THEN 0 ELSE CHOOSE j \in N : \A m \in N : m <= j
        base == IF lastN = 0 THEN PyNone ELSE Str(segs[lastN].elements[9])
        M == {j \in MemberIdAt(segs) : j > lastN}
        M1 == {j \in M : segs[j].elements[2] # <<>>}
    IN  IF base \notin {PyNone, Str(<<>>)} THEN base
        ELSE IF M1 # {}
             THEN Str(segs[CHOOSE j \in M1 : \A m \in M1 : j <= m].elements[2])
        ELSE IF M # {} THEN Str(<<>>)
        ELSE base

\* C24 amended: a member-id segment sets patient_id only when patient_id is
\* unset or empty; patient_id is the identifier of the record's last name
\* segment when that identifier is not empty, and otherwise (no name
\* segment with an identifier, or an empty one in the last) the first
\* non-empty member-id value after it.
C24_PatientIdPriority ==
    current_transaction # PyNone =>
        /\ MemberIdIsFallback
        /\ current_transaction.patient_id = ExpectedPatientId(RecordSoFar)

\* a member id, then a name segment, then a member id again: the name
\* segment's identifier has replaced the first and survived the second
C24_Witness ==
    /\ segments = <<HL22, REF_EA, NM1_IL, REF_EA>>
    /\ pos = 4
    /\ current_transaction.patient_id = Str(P1)

\* for each recognised segment type, the fields it can set and the number
\* of elements the segment must have for the field's source element to be
\* there
SourceLength(id) ==
    CASE id = <<"N", "M", "1">> ->
             [patient_name |-> 3, patient_id |-> 9, provider_npi |-> 9]
      [] id = <<"T", "R", "N">> -> [trace_number |-> 2]
      [] id = <<"S", "T", "C">> ->
             [status_category |-> 1, status_code |-> 1, billed_amount |-> 4]
      [] id = <<"R", "E", "F">> -> [claim_id |-> 2, patient_id |-> 2]
      [] id = <<"D", "T", "P">> -> [date_of_service |-> 3]
      [] id = <<"M", "S", "G">> -> [rejection_reason |-> 1]

\* C25: a segment of a recognised type with any number of elements, none
\* included, raises no error and changes no field whose source element is
\* missing; the record stays current, the output list is untouched and the
\* loop goes on; the call returns a result, never an error.
C25_ShortSegments ==
    [][/\ \A id \in RecognisedIds :
             Extracts(id) =>
                LET e == segments[pos + 1].elements
                    old == current_transaction
                    new == current_transaction'
                    need == SourceLength(id)
                IN  /\ new # PyNone
                    /\ DOMAIN new = DOMAIN old
                    /\ \A f \in DOMAIN old :
                          new[f] # old[f] =>
                             f \in DOMAIN need /\ Len(e) >= need[f]
                    /\ acknowledgments' = acknowledgments
                    /\ result' = PyNone
       /\ (~Returned /\ Returned') => result'.t = "dict"
      ]_vars

\* a status segment without elements followed a complete claim, and the
\* call returned that claim with its fields
C25_Witness ==
    /\ Returned
    /\ segments = FullClaim \o <<Seg(<<"S", "T", "C">>, <<>>)>>
    /\ result.t = "dict"
    /\ Len(result.rejections) = 1
    /\ result.rejections[1].billed_amount = Float(15000)

----------------------------------------------------------------------------
(* The pipeline: the rejections of a parse result handed to the engine *)

\* a parser record as the engine reads it: rejection.get(key) is None for
\* the keys the record does not have
RejectionOfAck(ack) ==
    [f \in (DOMAIN ack) \cup {"transaction_date", "charged_amount"} |->
        IF f \in DOMAIN ack THEN ack[f] ELSE PyNone]

\* a time of the query late enough for every rejection date of the inputs
LateNow == [ok |-> TRUE, day |-> Ordinal(2025, 1, 1), us |-> 0]

\* C27 as stated: every rejection of a parse result that add_rejections
\* stores under a key gets a cache entry with a rejection date that
\* parses, and is reported by find_unsubmitted, while no payment matches
\* it, once its age exceeds the threshold.
C27_AsStated ==
    (Returned /\ result.t = "dict") =>
        \A i \in 1..Len(result.rejections) :
            LET cache == AddRejections(<<>>, <<RejectionOfAck(result.rejections[i])>>).rej
            IN  cache # <<>> =>
                   /\ Truthy(cache[1].v.rejection_date)
                   /\ ParseRejectionDate(PyStr(cache[1].v.rejection_date)).ok
                   /\ \A th \in Thresholds :
                         cache[1].k \in AlertKeys(
                             FindUnsubmittedClaims(cache, th, LateNow))

----------------------------------------------------------------------------
(* Claims about the tokenizer, checked under SpecTok *)

TokReturned == lastOp.op = "_parse_segments"

\* the piece cur, trimmed: from its first to its last character that is not
\* whitespace
Trimmed(cur) ==
    LET solid == {j \in 1..Len(cur) : cur[j] \notin Whitespace}
    IN  IF solid = {} THEN <<>>
        ELSE SubSeq(cur, CHOOSE j \in solid : \A m \in solid : j <= m,
                         CHOOSE j \in solid : \A m \in solid : m <= j)

\* the pieces of a text, read one character at a time: a line feed is
\* passed over, "~" ends the piece, and a piece that is empty once trimmed
\* is dropped
RECURSIVE ScanPieces(_, _, _)
ScanPieces(text, i, cur) ==
    IF i > Len(text)
    THEN (IF Trimmed(cur) = <<>> THEN <<>> ELSE <<Trimmed(cur)>>)
    ELSE IF text[i] = "\n" THEN ScanPieces(text, i + 1, cur)
    ELSE IF text[i] = "~"
         THEN (IF Trimmed(cur) = <<>> THEN <<>> ELSE <<Trimmed(cur)>>)
              \o ScanPieces(text, i + 1, <<>>)
    ELSE ScanPieces(text, i + 1, Append(cur, text[i]))

\* C18: the segments are, in order, the pieces of the text (line feeds
\* removed, split on "~", trimmed, the empty ones dropped); the id of a
\* segment is the first "*"-separated field of its piece and the elements
\* are the other fields, so that id and elements joined by "*" give the
\* piece back; no segment comes from an empty piece.
C18_Tokenizer ==
    TokReturned =>
        LET pieces == ScanPieces(x12_content, 1, <<>>)
        IN  /\ Len(segments) = Len(pieces)
            /\ \A i \in 1..Len(segments) :
                  LET fields == <<segments[i].id>> \o segments[i].elements
                  IN  /\ pieces[i] # <<>>
                      /\ Join(fields, "*") = pieces[i]
                      /\ \A f \in 1..Len(fields) : ~Contains(fields[f], "*")

\* a text of three pieces gave two segments: the piece left empty by
\* trimming was dropped
C18_Witness ==
    /\ TokReturned
    /\ Len(segments) = 2
    /\ Len(Remove(x12_content, "~")) = Len(x12_content) - 2
    /\ x12_content[1] # "~" /\ x12_content[Len(x12_content)] # "~"
    /\ Contains(x12_content, " ")

====
